---- MODULE Spec2Model ----
(***************************************************************************)
(* Asterix charts: the chart services (src/unnamed/part_000 "app (1).py",  *)
(* src/app.py, src/chart_service.py) as state machines over the            *)
(* process-wide state they share between requests: matplotlib's rcParams,  *)
(* pyplot's registry of open figures, numpy's global generator and the     *)
(* interpreter's string-hash seed.                                         *)
(*                                                                         *)
(* JSON objects are records (a key is present iff it is in the DOMAIN),    *)
(* JSON arrays are sequences, an error message is the sequence of its      *)
(* parts (f'Unknown type: {t}' is <<"Unknown type: ", t>>).                *)
(***************************************************************************)
EXTENDS Integers, Sequences, FiniteSets, TLC

VARIABLES
    variant,    \* the entry point this process runs: "app1", "app" or "service"
    rcParams,   \* matplotlib.rcParams, the process-wide style table
    figs,       \* number of figures open in pyplot's registry
    np_rng,     \* state of numpy's global generator (np.random.normal)
    hashseed,   \* the interpreter's per-process string-hash seed
    lastReq,    \* the request handled last
    lastResp,   \* the response returned for it
    figs0,      \* the value of figs when lastReq arrived
    jitterLog,  \* the jitter of the first render of each request collected so far
    threads,    \* concurrent builds in flight (SpecConc)
    call,       \* the function of the chart scripts called last, with its arguments
    ret,        \* what that call returned
    drive,      \* the files of the Drive folder 'Asterix Charts', by file id
    runs,       \* the runs of headless_charts.py: where each is in main, and its locals
    sheet       \* the 'Charts' tab of the spreadsheet

vars == <<variant, rcParams, figs, np_rng, hashseed, lastReq, lastResp, figs0, jitterLog,
          threads, call, ret, drive, runs, sheet>>

\* what only headless_charts.py main writes
googleVars == <<drive, runs, sheet>>

(***************************************************************************)
(* Bounds of the model.                                                    *)
(***************************************************************************)
MaxBatch == 2      \* longest batch
MaxFigs == 2       \* requests are accepted while fewer figures than this are leaked
NThreads == 2      \* concurrent builds (SpecConc)
MaxRows == 3       \* rows of a summary table (SpecCalls)
MaxGroups == 2     \* groups, treatments or series of a chart drawn in SpecCalls

Variants == {"app1", "app", "service"}

(***************************************************************************)
(* Python dict access.                                                     *)
(***************************************************************************)
Has(d, k) == k \in DOMAIN d
Get(d, k, default) == IF Has(d, k) THEN d[k] ELSE default

\* a label as JSON carries it: a str or a number
PyStr(s) == [str |-> s]
PyInt(n) == [int |-> n]
isinstance_str(l) == Has(l, "str")

RECURSIVE DecimalLen(_)
\* the number of characters of str(n) for an int n
DecimalLen(n) ==
    IF n < 0 THEN 1 + DecimalLen(0 - n)
    ELSE IF n < 10 THEN 1
    ELSE 1 + DecimalLen(n \div 10)

\* len(str(l))
len_str(l) == IF isinstance_str(l) THEN Len(l.str) ELSE DecimalLen(l.int)

\* i-th element access of a Python list by 0-based index i; IndexError outside
InRange(n, i) == i >= 0 /\ i < n

(***************************************************************************)
(* Random generators.  A generator is its state; a draw steps the state    *)
(* and returns the new state as the sample.  default_rng(seed) starts at   *)
(* the seed; the global generator starts from OS entropy.                  *)
(***************************************************************************)
RngStates == 0 .. 3
RngNext(s) == (5 * s + 3) % 4

default_rng(seed) == seed % 4

RECURSIVE normal(_, _)
\* rng.normal(0, sd, k): the k samples drawn from state s
normal(s, k) == IF k = 0 THEN <<>> ELSE <<RngNext(s)>> \o normal(RngNext(s), k - 1)

RECURSIVE advance(_, _)
\* the generator state after k draws
advance(s, k) == IF k = 0 THEN s ELSE advance(RngNext(s), k - 1)

(***************************************************************************)
(* Builder results.                                                        *)
(*   kind "none"  : the builder returned None                              *)
(*   kind "fig"   : it returned a figure (registered in pyplot: opened 1)  *)
(*   kind "raise" : it raised; opened is 1 iff plt.subplots had run        *)
(* rng is the state of the global generator when the builder ends.         *)
(***************************************************************************)
RNone(rng) == [kind |-> "none", opened |-> 0, rng |-> rng]
RFig(model, rng) == [kind |-> "fig", opened |-> 1, rng |-> rng, fig |-> model]
RRaise(exc, opened, rng) == [kind |-> "raise", opened |-> opened, rng |-> rng, exc |-> exc]

(***************************************************************************)
(* Shared list helpers.                                                    *)
(***************************************************************************)
\* the first (lowest) index of seq whose element lacks key k, 0 when none
FirstWithout(seq, k) ==
    IF \E i \in DOMAIN seq : ~Has(seq[i], k)
    THEN CHOOSE i \in DOMAIN seq : ~Has(seq[i], k) /\ \A j \in 1 .. (i - 1) : Has(seq[j], k)
    ELSE 0

RECURSIVE SumLens(_, _)
\* len(raw[0]) + ... + len(raw[k-1])
SumLens(raw, k) == IF k = 0 THEN 0 ELSE SumLens(raw, k - 1) + Len(raw[k])

RECURSIVE MaxLen(_)
\* max(len(t['values']) for t in treatments), for a non-empty list
MaxLen(treatments) ==
    IF Len(treatments) = 1 THEN Len(treatments[1].values)
    ELSE LET m == MaxLen(Tail(treatments))
             h == Len(treatments[1].values)
         IN  IF h > m THEN h ELSE m

\* the loop over the series reads g['ages'], g['means'], g['name'] of each
\* group in turn: the key whose KeyError ends the loop, "" when none is missing
TimeLoopMissing(groups) ==
    LET bad == {i \in DOMAIN groups :
                   ~Has(groups[i], "ages") \/ ~Has(groups[i], "means") \/ ~Has(groups[i], "name")}
    IN  IF bad = {} THEN ""
        ELSE LET g == groups[CHOOSE i \in bad : \A j \in bad : i <= j]
             IN  IF ~Has(g, "ages") THEN "'ages'"
                 ELSE IF ~Has(g, "means") THEN "'means'"
                 ELSE "'name'"

(***************************************************************************)
(* src/unnamed/part_000 ("app (1).py"): the builders.                      *)
(***************************************************************************)
\* jitter of group i: a fresh default_rng(42) per group (part_000:94)
jitter_app1(vals) == normal(default_rng(42), Len(vals))

build_avg_chart_app1(data, rng) ==
    LET groups == Get(data, "groups", <<>>)
        raw == Get(data, "raw_values", <<>>)
        n == Len(groups)
        \* x[i] raises IndexError for a non-empty vals at index i >= n
        over == {i \in DOMAIN raw : raw[i] # <<>> /\ ~InRange(n, i - 1)}
    IN  IF groups = <<>> THEN RNone(rng)
        ELSE IF FirstWithout(groups, "label") # 0 THEN RRaise(<<"'label'">>, 0, rng)
        ELSE IF FirstWithout(groups, "mean") # 0 THEN RRaise(<<"'mean'">>, 0, rng)
        ELSE IF over # {} THEN RRaise(<<"index out of bounds">>, 1, rng)
        ELSE RFig([family |-> "average",
                   n |-> n,
                   hatch |-> "",
                   jitter |-> [i \in DOMAIN raw |->
                                  IF raw[i] # <<>> THEN jitter_app1(raw[i]) ELSE <<>>]],
                  rng)

build_ind_chart_app1(data, rng) ==
    LET treatments == Get(data, "treatments", <<>>)
    IN  IF treatments = <<>> THEN RNone(rng)
        ELSE IF FirstWithout(treatments, "values") # 0 THEN RRaise(<<"'values'">>, 0, rng)
        ELSE IF FirstWithout(treatments, "name") # 0 THEN RRaise(<<"'name'">>, 1, rng)
        ELSE RFig([family |-> "individual",
                   n |-> Len(treatments),
                   hatch |-> "",
                   jitter |-> <<>>],
                  rng)

build_time_chart_app1(data, rng) ==
    LET groups == Get(data, "groups", <<>>)
    IN  IF groups = <<>> THEN RNone(rng)
        ELSE IF TimeLoopMissing(groups) # "" THEN RRaise(<<TimeLoopMissing(groups)>>, 1, rng)
        ELSE RFig([family |-> "timecourse",
                   n |-> Len(groups),
                   hatch |-> "",
                   jitter |-> <<>>],
                  rng)

(***************************************************************************)
(* src/app.py: the builders.                                               *)
(***************************************************************************)
\* jitter of group i: np.random.normal on the global generator, which has
\* already produced the samples of groups 0..i-1 (app.py:109)
jitter_app(rng, raw, i) == normal(advance(rng, SumLens(raw, i - 1)), Len(raw[i]))

build_avg_chart_app(data, rng) ==
    IF ~Has(data, "groups") THEN RRaise(<<"'groups'">>, 0, rng)
    ELSE
    LET groups == data.groups
        raw == Get(data, "raw_values", <<>>)
        n == Len(groups)
        \* x[i] raises IndexError at the first index i >= n, after the draw
        over == {i \in DOMAIN raw : ~InRange(n, i - 1)}
        stop == IF over = {} THEN Len(raw) ELSE n + 1
    IN  IF groups = <<>> THEN RNone(rng)
        ELSE IF FirstWithout(groups, "label") # 0 THEN RRaise(<<"'label'">>, 0, rng)
        ELSE IF FirstWithout(groups, "mean") # 0 THEN RRaise(<<"'mean'">>, 0, rng)
        ELSE IF over # {}
             THEN RRaise(<<"index out of bounds">>, 1, advance(rng, SumLens(raw, stop)))
        \* max(len(l) for l in labels): len() of a label that is not a str
        ELSE IF \E i \in DOMAIN groups : ~isinstance_str(groups[i].label)
             THEN RRaise(<<"object of type 'int' has no len()">>, 1,
                         advance(rng, SumLens(raw, stop)))
        ELSE RFig([family |-> "average",
                   n |-> n,
                   hatch |-> "",
                   jitter |-> [i \in DOMAIN raw |-> jitter_app(rng, raw, i)]],
                  advance(rng, SumLens(raw, stop)))

build_ind_chart_app(data, rng) ==
    LET treatments == Get(data, "treatments", <<>>)
    IN  IF treatments = <<>> THEN RNone(rng)
        ELSE IF FirstWithout(treatments, "values") # 0 THEN RRaise(<<"'values'">>, 0, rng)
        ELSE IF FirstWithout(treatments, "name") # 0 THEN RRaise(<<"'name'">>, 1, rng)
        \* max() of the empty label list xlabels[:0]
        ELSE IF MaxLen(treatments) = 0
             THEN RRaise(<<"max() arg is an empty sequence">>, 1, rng)
        ELSE RFig([family |-> "individual",
                   n |-> Len(treatments),
                   hatch |-> "",
                   jitter |-> <<>>],
                  rng)

build_time_chart_app(data, rng) ==
    LET groups == Get(data, "groups", <<>>)
    IN  IF groups = <<>> THEN RNone(rng)
        ELSE IF TimeLoopMissing(groups) # "" THEN RRaise(<<TimeLoopMissing(groups)>>, 1, rng)
        ELSE RFig([family |-> "timecourse",
                   n |-> Len(groups),
                   hatch |-> "",
                   jitter |-> <<>>],
                  rng)

(***************************************************************************)
(* src/chart_service.py: the builders.  Each one starts with               *)
(* setup_publication_style(), which rewrites rcParams; the handler         *)
(* accounts for that write.                                                *)
(***************************************************************************)
HATCHES == <<"", "///", "xxx", "...", "+++", "\\\\\\", "ooo", "***", "OOO", "---">>

HashSeeds == {0, 1}

\* hash(str): a function of the string and of the per-process seed the
\* interpreter draws at start-up; hash('') is 0 in every process
StrHash(seed, str) == IF str = "" THEN 0 ELSE 31 * Len(str) + seed

\* HATCHES[hash(title) % len(HATCHES)] (chart_service.py:98)
hatch_pattern(seed, title) == HATCHES[(StrHash(seed, title) % Len(HATCHES)) + 1]

\* jitter of group i: one default_rng(42) per chart, shared by the groups
jitter_service(raw, i) ==
    IF raw[i] # <<>>
    THEN normal(advance(default_rng(42),
                        SumLens(raw, i - 1)),
                Len(raw[i]))
    ELSE <<>>

create_avg_chart(data, rng, seed) ==
    IF ~Has(data, "labels") THEN RRaise(<<"'labels'">>, 0, rng)
    ELSE IF ~Has(data, "means") THEN RRaise(<<"'means'">>, 0, rng)
    ELSE IF ~Has(data, "stds") THEN RRaise(<<"'stds'">>, 0, rng)
    ELSE
    LET labels == data.labels
        raw == Get(data, "raw_values", <<>>)
        n == Len(labels)
        over == {i \in DOMAIN raw : raw[i] # <<>> /\ ~InRange(n, i - 1)}
    IN  IF over # {} THEN RRaise(<<"index out of bounds">>, 1, rng)
        \* max(len(str(l)) for l in labels) of no labels
        ELSE IF labels = <<>> THEN RRaise(<<"max() arg is an empty sequence">>, 1, rng)
        ELSE RFig([family |-> "average",
                   n |-> n,
                   hatch |-> hatch_pattern(seed, Get(data, "title", "")),
                   jitter |-> [i \in DOMAIN raw |-> jitter_service(raw, i)]],
                  rng)

create_ind_chart(data, rng, seed) ==
    IF ~Has(data, "treatments") THEN RRaise(<<"'treatments'">>, 0, rng)
    ELSE
    LET treatments == data.treatments
    IN  \* max() of no treatments
        IF treatments = <<>> THEN RRaise(<<"max() arg is an empty sequence">>, 0, rng)
        ELSE IF FirstWithout(treatments, "values") # 0 THEN RRaise(<<"'values'">>, 0, rng)
        ELSE IF FirstWithout(treatments, "name") # 0 THEN RRaise(<<"'name'">>, 1, rng)
        ELSE IF MaxLen(treatments) = 0
             THEN RRaise(<<"max() arg is an empty sequence">>, 1, rng)
        ELSE RFig([family |-> "individual",
                   n |-> Len(treatments),
                   hatch |-> "",
                   jitter |-> <<>>],
                  rng)

create_time_chart(data, rng, seed) ==
    IF ~Has(data, "groups") THEN RRaise(<<"'groups'">>, 0, rng)
    ELSE
    LET groups == data.groups
    IN  IF TimeLoopMissing(groups) # "" THEN RRaise(<<TimeLoopMissing(groups)>>, 1, rng)
        \* no emptiness test: zero series are drawn on an empty canvas
        ELSE RFig([family |-> "timecourse",
                   n |-> Len(groups),
                   hatch |-> "",
                   jitter |-> <<>>],
                  rng)

(***************************************************************************)
(* Requests and responses.                                                 *)
(* A body that is JSON null (or any non-object) is NullBody; request.      *)
(* get_json() returns None for it and payload.get raises AttributeError.   *)
(* A handler's run ends in                                                 *)
(*   kind "return": it returned resp = [status, json];                     *)
(*   kind "raise" : an exception left it (exc), no response was built.     *)
(* figs, rng, rc are the registry size, the global generator and rcParams  *)
(* when the run ends.                                                      *)
(***************************************************************************)
NullBody == [json |-> "null"]
IsObject(b) == ~Has(b, "json")
NoneGet == <<"'NoneType' object has no attribute 'get'">>
EmptyDict == <<>>

KnownTypes == {"average", "individual", "timecourse"}

Return(status, json, figs_, rng, rc) ==
    [kind |-> "return", resp |-> [status |-> status, json |-> json],
     figs |-> figs_, rng |-> rng, rc |-> rc]
Raised(exc, figs_, rng, rc) ==
    [kind |-> "raise", exc |-> exc, figs |-> figs_, rng |-> rng, rc |-> rc]

\* savefig fails for reasons outside the request (memory, image too large)
SavefigError == <<"savefig failed">>

(***************************************************************************)
(* matplotlib style table.  "default" is the library's defaults, "custom"  *)
(* is the variant's profile applied on top of them.                        *)
(***************************************************************************)
style_use_default(rc) == "default"
rcParams_update(rc) == "custom"
setup_publication_style(rc) == rcParams_update(style_use_default(rc))

\* the loop body of a batch ends by appending an entry to results
Entry(entry, figs_, rng) == [kind |-> "entry", entry |-> entry, figs |-> figs_, rng |-> rng]

(***************************************************************************)
(* src/unnamed/part_000: fig_to_base64, generate_chart, generate_batch.    *)
(***************************************************************************)
\* savefig, then plt.close(fig) and plt.close('all'); a failing savefig
\* leaves the registry as it is.  Returns the registry size, 0 on success.
fig_to_base64_app1(figs_, ok) == IF ok THEN 0 ELSE figs_

builder_app1(chart_type, data, rng) ==
    IF chart_type = "average" THEN build_avg_chart_app1(data, rng)
    ELSE IF chart_type = "individual" THEN build_ind_chart_app1(data, rng)
    ELSE build_time_chart_app1(data, rng)

\* a handler that lets the exception go: what C5 rules out
except_chart_app1_reraise(r) == Raised(r.exc, r.figs, r.rng, r.rc)

\* except Exception as e: plt.close('all'); return jsonify({'error': str(e)}), 500
except_chart_app1(r) == Return(500, [error |-> r.exc], 0, r.rng, r.rc)

\* an image also when the builder returned None
built_chart_app1_blank(b, encOk, figs_, rc) ==
    IF b.kind = "raise" THEN Raised(b.exc, figs_ + b.opened, b.rng, rc)
    ELSE IF b.kind = "none"
    THEN Return(200, [image |-> [family |-> "average", n |-> 0, hatch |-> "", jitter |-> <<>>]],
                figs_, b.rng, rc)
    ELSE IF ~encOk THEN Raised(SavefigError, fig_to_base64_app1(figs_ + 1, FALSE), b.rng, rc)
    ELSE Return(200, [image |-> b.fig], fig_to_base64_app1(figs_ + 1, TRUE), b.rng, rc)

\* the rest of the try block once the builder has ended with b
built_chart_app1(b, encOk, figs_, rc) ==
    IF b.kind = "raise" THEN Raised(b.exc, figs_ + b.opened, b.rng, rc)
    ELSE IF b.kind = "none" THEN Return(400, [error |-> <<"No data">>], figs_, b.rng, rc)
    ELSE IF ~encOk THEN Raised(SavefigError, fig_to_base64_app1(figs_ + 1, FALSE), b.rng, rc)
    ELSE Return(200, [image |-> b.fig], fig_to_base64_app1(figs_ + 1, TRUE), b.rng, rc)

\* a request without 'type' answered as an unknown type
try_chart_app1_no_default(body, encOk, figs_, rng, rc) ==
    IF ~IsObject(body) THEN Raised(NoneGet, figs_, rng, rc)
    ELSE IF Get(body, "type", "") \notin KnownTypes
    THEN Return(400, [error |-> <<"Unknown type: ", Get(body, "type", "")>>],
                figs_, rng, rc)
    ELSE built_chart_app1(builder_app1(body.type, Get(body, "data", EmptyDict), rng),
                          encOk, figs_, rc)

try_chart_app1(body, encOk, figs_, rng, rc) ==
    IF ~IsObject(body) THEN Raised(NoneGet, figs_, rng, rc)
    ELSE IF Get(body, "type", "average") \notin KnownTypes
    THEN Return(400, [error |-> <<"Unknown type: ", Get(body, "type", "average")>>],
                figs_, rng, rc)
    ELSE built_chart_app1(builder_app1(Get(body, "type", "average"),
                                       Get(body, "data", EmptyDict), rng),
                          encOk, figs_, rc)

handled_chart_app1(t) == IF t.kind = "raise" THEN except_chart_app1(t) ELSE t

generate_chart_app1(body, encOk, figs_, rng, rc) ==
    handled_chart_app1(try_chart_app1(body, encOk, figs_, rng, rc))

\* the loop body's own handler:
\* except Exception as e: plt.close('all'); results.append({'error': str(e)})
except_item_app1(r) == Entry([error |-> r.exc], 0, r.rng)

built_item_app1(b, encOk, figs_) ==
    IF b.kind = "raise" THEN Raised(b.exc, figs_ + b.opened, b.rng, "")
    ELSE IF b.kind = "none" THEN Entry([error |-> <<"No data">>], figs_, b.rng)
    ELSE IF ~encOk THEN Raised(SavefigError, fig_to_base64_app1(figs_ + 1, FALSE), b.rng, "")
    ELSE Entry([image |-> b.fig], fig_to_base64_app1(figs_ + 1, TRUE), b.rng)

try_item_app1(c, encOk, figs_, rng) ==
    IF ~IsObject(c) THEN Raised(NoneGet, figs_, rng, "")
    ELSE IF Get(c, "type", "average") \notin KnownTypes
    THEN Entry([error |-> <<"Unknown type">>], figs_, rng)
    ELSE built_item_app1(builder_app1(Get(c, "type", "average"),
                                      Get(c, "data", EmptyDict), rng),
                         encOk, figs_)

handled_item_app1(t) == IF t.kind = "raise" THEN except_item_app1(t) ELSE t

\* one pass of the loop body for item c: the entry appended to results and
\* the state after it
batch_item_app1(c, encOk, figs_, rng) == handled_item_app1(try_item_app1(c, encOk, figs_, rng))

\* the loop state after one more item
appended(prev, it) ==
    [kind |-> "done", results |-> Append(prev.results, it.entry), figs |-> it.figs, rng |-> it.rng]

loop_step_app1(prev, c, encOk) == appended(prev, batch_item_app1(c, encOk, prev.figs, prev.rng))

RECURSIVE batch_loop_app1(_, _, _, _)
\* for c in charts: the state after the first i items
batch_loop_app1(charts, i, encFail, start) ==
    IF i = 0 THEN start
    ELSE loop_step_app1(batch_loop_app1(charts, i - 1, encFail, start), charts[i], encFail # i)

\* the outer handler: except Exception as e: return jsonify({'error': str(e)}), 500
except_batch_app1(r) == Return(500, [error |-> r.exc], r.figs, r.rng, r.rc)

looped_batch(l, rc) ==
    IF l.kind = "raise" THEN Raised(l.exc, l.figs, l.rng, rc)
    ELSE Return(200, [results |-> l.results], l.figs, l.rng, rc)

LoopStart(figs_, rng) == [kind |-> "done", results |-> <<>>, figs |-> figs_, rng |-> rng]

try_batch_app1(body, encFail, figs_, rng, rc) ==
    IF ~IsObject(body) THEN Raised(NoneGet, figs_, rng, rc)
    ELSE looped_batch(batch_loop_app1(Get(body, "charts", <<>>),
                                      Len(Get(body, "charts", <<>>)),
                                      encFail, LoopStart(figs_, rng)),
                      rc)

handled_batch_app1(t) == IF t.kind = "raise" THEN except_batch_app1(t) ELSE t

generate_batch_app1(body, encFail, figs_, rng, rc) ==
    handled_batch_app1(try_batch_app1(body, encFail, figs_, rng, rc))

(***************************************************************************)
(* src/app.py: fig_to_base64, generate_chart, generate_batch.              *)
(***************************************************************************)
\* savefig, then plt.close(fig); a failing savefig leaves the figure open.
\* Returns the registry size.
fig_to_base64_app(figs_, ok) == IF ok THEN figs_ - 1 ELSE figs_

builder_app(chart_type, data, rng) ==
    IF chart_type = "average" THEN build_avg_chart_app(data, rng)
    ELSE IF chart_type = "individual" THEN build_ind_chart_app(data, rng)
    ELSE build_time_chart_app(data, rng)

\* except Exception as e: return jsonify({'error': str(e)}), 500
except_chart_app(r) == Return(500, [error |-> r.exc], r.figs, r.rng, r.rc)

built_chart_app(b, encOk, figs_, rc) ==
    IF b.kind = "raise" THEN Raised(b.exc, figs_ + b.opened, b.rng, rc)
    ELSE IF b.kind = "none" THEN Return(400, [error |-> <<"No data to chart">>], figs_, b.rng, rc)
    ELSE IF ~encOk THEN Raised(SavefigError, fig_to_base64_app(figs_ + 1, FALSE), b.rng, rc)
    ELSE Return(200, [image |-> b.fig], fig_to_base64_app(figs_ + 1, TRUE), b.rng, rc)

try_chart_app(body, encOk, figs_, rng, rc) ==
    IF ~IsObject(body) THEN Raised(NoneGet, figs_, rng, rc)
    ELSE IF Get(body, "type", "average") \notin KnownTypes
    THEN Return(400, [error |-> <<"Unknown chart type: ", Get(body, "type", "average")>>],
                figs_, rng, rc)
    ELSE built_chart_app(builder_app(Get(body, "type", "average"),
                                     Get(body, "data", EmptyDict), rng),
                         encOk, figs_, rc)

handled_chart_app(t) == IF t.kind = "raise" THEN except_chart_app(t) ELSE t

generate_chart_app(body, encOk, figs_, rng, rc) ==
    handled_chart_app(try_chart_app(body, encOk, figs_, rng, rc))

built_item_app(b, encOk, figs_) ==
    IF b.kind = "raise" THEN Raised(b.exc, figs_ + b.opened, b.rng, "")
    ELSE IF b.kind = "none" THEN Entry([error |-> <<"No data">>], figs_, b.rng)
    ELSE IF ~encOk THEN Raised(SavefigError, fig_to_base64_app(figs_ + 1, FALSE), b.rng, "")
    ELSE Entry([image |-> b.fig], fig_to_base64_app(figs_ + 1, TRUE), b.rng)

\* the loop body for chart_req; it has no handler of its own
batch_item_app(chart_req, encOk, figs_, rng) ==
    IF ~IsObject(chart_req) THEN Raised(NoneGet, figs_, rng, "")
    ELSE IF Get(chart_req, "type", "average") \notin KnownTypes
    THEN Entry([error |-> <<"Unknown type: ", Get(chart_req, "type", "average")>>], figs_, rng)
    ELSE built_item_app(builder_app(Get(chart_req, "type", "average"),
                                    Get(chart_req, "data", EmptyDict), rng),
                        encOk, figs_)

\* an exception in the loop body ends the loop
appended_or_raised(prev, it) == IF it.kind = "raise" THEN it ELSE appended(prev, it)

loop_step_app(prev, chart_req, encOk) ==
    IF prev.kind = "raise" THEN prev
    ELSE appended_or_raised(prev, batch_item_app(chart_req, encOk, prev.figs, prev.rng))

RECURSIVE batch_loop_app(_, _, _, _)
\* for chart_req in charts: the state after the first i items, or the
\* exception that ended the loop
batch_loop_app(charts, i, encFail, start) ==
    IF i = 0 THEN start
    ELSE loop_step_app(batch_loop_app(charts, i - 1, encFail, start), charts[i], encFail # i)

\* except Exception as e: return jsonify({'error': str(e)}), 500
except_batch_app(r) == Return(500, [error |-> r.exc], r.figs, r.rng, r.rc)

try_batch_app(body, encFail, figs_, rng, rc) ==
    IF ~IsObject(body) THEN Raised(NoneGet, figs_, rng, rc)
    ELSE looped_batch(batch_loop_app(Get(body, "charts", <<>>),
                                     Len(Get(body, "charts", <<>>)),
                                     encFail, LoopStart(figs_, rng)),
                      rc)

handled_batch_app(t) == IF t.kind = "raise" THEN except_batch_app(t) ELSE t

generate_batch_app(body, encFail, figs_, rng, rc) ==
    handled_batch_app(try_batch_app(body, encFail, figs_, rng, rc))

(***************************************************************************)
(* src/chart_service.py: fig_to_base64, generate_chart.                    *)
(***************************************************************************)
fig_to_base64_service(figs_, ok) == IF ok THEN figs_ - 1 ELSE figs_

builder_service(chart_type, data, rng, seed) ==
    IF chart_type = "average" THEN create_avg_chart(data, rng, seed)
    ELSE IF chart_type = "individual" THEN create_ind_chart(data, rng, seed)
    ELSE create_time_chart(data, rng, seed)

\* except Exception as e: ...; return jsonify({'error': str(e)}), 500
except_chart_service(r) == Return(500, [error |-> r.exc], r.figs, r.rng, r.rc)

\* the rest of the try block once the builder has ended with b; rc is the
\* style table the builder's setup_publication_style() left
built_chart_service(b, chart_type, encOk, figs_, rc) ==
    IF b.kind = "raise" THEN Raised(b.exc, figs_ + b.opened, b.rng, rc)
    ELSE IF b.kind = "none"
         THEN Return(400, [error |-> <<"Failed to generate chart">>], figs_, b.rng, rc)
    ELSE IF ~encOk THEN Raised(SavefigError, fig_to_base64_service(figs_ + 1, FALSE), b.rng, rc)
    ELSE Return(200, [success |-> TRUE, image |-> b.fig, type |-> chart_type],
                fig_to_base64_service(figs_ + 1, TRUE), b.rng, rc)

try_chart_service(body, encOk, figs_, rng, rc, seed) ==
    IF ~IsObject(body) THEN Raised(NoneGet, figs_, rng, rc)
    ELSE IF Get(body, "type", "average") \notin KnownTypes
    THEN Return(400, [error |-> <<"Unknown chart type: ", Get(body, "type", "average")>>],
                figs_, rng, rc)
    ELSE built_chart_service(builder_service(Get(body, "type", "average"),
                                             Get(body, "data", EmptyDict), rng, seed),
                             Get(body, "type", "average"), encOk, figs_,
                             setup_publication_style(rc))

handled_chart_service(t) == IF t.kind = "raise" THEN except_chart_service(t) ELSE t

generate_chart_service(body, encOk, figs_, rng, rc, seed) ==
    handled_chart_service(try_chart_service(body, encOk, figs_, rng, rc, seed))

(***************************************************************************)
(* The requests the clients send.  part_000 and app.py share one wire      *)
(* format (groups / treatments / groups), chart_service.py has its own     *)
(* for the average family (labels / means / stds).                         *)
(***************************************************************************)
G1 == [label |-> PyStr("Ctrl"), mean |-> 11, std |-> 1]
G2 == [label |-> PyStr("Treatment"), mean |-> 21, std |-> 2]
GNoMean == [label |-> PyStr("Treat")]

NoList == [title |-> "LF"]
AvgEmpty == [title |-> "LF", groups |-> <<>>]
AvgOne == [title |-> "LF", groups |-> <<G1>>]
AvgRaw == [title |-> "LF", groups |-> <<G1, G2>>, raw_values |-> <<<<10, 12, 11>>, <<20, 22>>>>]
AvgNoMean == [title |-> "LF", groups |-> <<G1, GNoMean>>]
AvgRawLong == [title |-> "LF", groups |-> <<G1>>, raw_values |-> <<<<10>>, <<20>>>>]

IndEmpty == [title |-> "LF", treatments |-> <<>>]
IndOK == [title |-> "LF",
          treatments |-> <<[name |-> "A", values |-> <<1, 2, 3>>],
                           [name |-> "B", values |-> <<4, 5>>]>>]
IndNoValues == [title |-> "LF", treatments |-> <<[name |-> "A", values |-> <<1>>], [name |-> "B"]>>]
IndNoName == [title |-> "LF", treatments |-> <<[values |-> <<1>>]>>]

TimeEmpty == [title |-> "LF", groups |-> <<>>]
TimeOK == [title |-> "LF",
           groups |-> <<[name |-> "1", ages |-> <<1, 2>>, means |-> <<3, 4>>, stds |-> <<0, 1>>]>>]
TimeNoAges == [title |-> "LF", groups |-> <<[name |-> "1", means |-> <<3, 4>>]>>]

SvcAvgEmpty == [title |-> "LF", labels |-> <<>>, means |-> <<>>, stds |-> <<>>]
SvcAvgOne == [title |-> "pH", labels |-> <<PyStr("Ctrl")>>, means |-> <<11>>, stds |-> <<1>>]
SvcAvgRaw == [title |-> "LF", labels |-> <<PyStr("Ctrl"), PyStr("Treatment")>>, means |-> <<11, 21>>,
              stds |-> <<1, 2>>, raw_values |-> <<<<10, 12, 11>>, <<20, 22>>>>]
SvcAvgNoMeans == [title |-> "LF", labels |-> <<PyStr("Ctrl")>>]

AvgData == {NoList, AvgEmpty, AvgOne, AvgRaw, AvgNoMean, AvgRawLong}
IndData == {NoList, IndEmpty, IndOK, IndNoValues, IndNoName}
TimeData == {NoList, TimeEmpty, TimeOK, TimeNoAges}
SvcAvgData == {NoList, SvcAvgEmpty, SvcAvgOne, SvcAvgRaw, SvcAvgNoMeans}

\* single-chart bodies: each family with its payloads, a body with no
\* 'type', one with no 'data', an unknown type, and a non-object body
TypedBodies(avg) ==
    {[type |-> "average", data |-> d] : d \in avg}
        \cup {[type |-> "individual", data |-> d] : d \in IndData}
        \cup {[type |-> "timecourse", data |-> d] : d \in TimeData}
        \cup {[data |-> d] : d \in avg}
        \cup {[type |-> "average"], [type |-> "pie", data |-> IndOK], NullBody}

Bodies == TypedBodies(AvgData)
SvcBodies == TypedBodies(SvcAvgData)

\* the items batches are built from
BatchItems ==
    {[type |-> "average", data |-> AvgRaw],
     [type |-> "average", data |-> AvgEmpty],
     [type |-> "average", data |-> AvgNoMean],
     [type |-> "timecourse", data |-> TimeNoAges],
     [type |-> "pie", data |-> IndOK],
     [data |-> AvgOne],
     NullBody}

RECURSIVE SeqsUpTo(_, _)
\* the sequences over S of length at most n
SeqsUpTo(S, n) ==
    IF n = 0 THEN {<<>>}
    ELSE LET shorter == SeqsUpTo(S, n - 1)
         IN  shorter \cup {Append(q, x) : q \in shorter, x \in S}

BatchBodies == {[charts |-> c] : c \in SeqsUpTo(BatchItems, MaxBatch)} \cup {NullBody, NoList}

(***************************************************************************)
(* The process.  Requests are handled one at a time; the client collects   *)
(* each response before the next request is sent.                          *)
(***************************************************************************)
NoReq == [ep |-> "none"]
NoResp == [status |-> 0]

\* rcParams after the module has been imported: part_000 (rcParams.update
\* at module level) and app.py (apply_prism_style()) install their profile,
\* chart_service.py leaves the library's defaults until the first build
StartupStyle(v) == IF v = "service" THEN "default" ELSE "custom"

\* no function of the chart scripts has been called
NoCall == [fn |-> "none"]
\* Python's None
None == [py |-> "None"]

IdleThreads == [t \in 1 .. NThreads |-> [pc |-> "idle"]]

\* headless_charts.py is not running: no file in the folder, no 'Charts' tab
Runs == {"run1", "run2"}
NoRuns == [r \in Runs |-> [pc |-> "not run"]]
NoSheet == [state |-> "absent"]

Init ==
    /\ variant \in Variants
    /\ rcParams = StartupStyle(variant)
    /\ figs = 0
    /\ figs0 = 0
    \* only app.py draws from the global generator, only chart_service.py
    \* hashes a string; the others never read them
    /\ np_rng \in (IF variant = "app" THEN RngStates ELSE {0})
    /\ hashseed \in (IF variant = "service" THEN HashSeeds ELSE {0})
    /\ lastReq = NoReq
    /\ lastResp = NoResp
    /\ jitterLog = {}
    /\ threads = IdleThreads
    /\ drive = <<>>
    /\ runs = NoRuns
    /\ sheet = NoSheet
    /\ call = NoCall
    /\ ret = None

\* the response the client gets for a handler run r: what the handler
\* returned, or the server's own 500 when an exception left the handler
Respond(r) == IF r.kind = "return" THEN r.resp ELSE [status |-> 500, unhandled |-> r.exc]

\* the average-family renders of a response: <<data, jitter>> of every image
\* it carries whose request had raw values
Renders(req, resp) ==
    IF ~Has(resp, "json") THEN {}
    ELSE IF req.ep = "chart"
    THEN IF Has(resp.json, "image") /\ resp.json.image.jitter # <<>>
         THEN {<<req.body.data, resp.json.image.jitter>>}
         ELSE {}
    ELSE IF Has(resp.json, "results")
    THEN {<<req.body.charts[i].data, resp.json.results[i].image.jitter>> :
             i \in {j \in DOMAIN resp.json.results :
                       /\ Has(resp.json.results[j], "image")
                       /\ resp.json.results[j].image.jitter # <<>>}}
    ELSE {}

\* jitterLog keeps the first render of each request
Logged(log, new) == log \cup {p \in new : \A q \in log : q[1] # p[1]}

\* a request is accepted when the previous response has been collected
Accepting == lastReq = NoReq /\ figs < MaxFigs

Handle(ep, body, enc, r) ==
    /\ lastReq' = [ep |-> ep, body |-> body, enc |-> enc]
    /\ lastResp' = Respond(r)
    /\ figs0' = figs
    /\ figs' = r.figs
    /\ np_rng' = r.rng
    /\ rcParams' = r.rc
    /\ UNCHANGED googleVars
    /\ UNCHANGED <<variant, hashseed, threads, jitterLog, call, ret>>

\* the client reads the response; its renders enter the log
Collect ==
    /\ lastReq # NoReq
    /\ jitterLog' = Logged(jitterLog, Renders(lastReq, lastResp))
    /\ lastReq' = NoReq
    /\ lastResp' = NoResp
    /\ UNCHANGED googleVars
    /\ UNCHANGED <<variant, rcParams, figs, figs0, np_rng, hashseed, threads, call, ret>>

ChartApp1 ==
    /\ variant = "app1"
    /\ Accepting
    /\ \E body \in Bodies, enc \in 0 .. 1 :
          \E r \in {generate_chart_app1(body, enc = 0, figs, np_rng, rcParams)} :
             Handle("chart", body, enc, r)

BatchApp1 ==
    /\ variant = "app1"
    /\ Accepting
    /\ \E body \in BatchBodies :
          \E enc \in 0 .. Len(Get(body, "charts", <<>>)) :
             \E r \in {generate_batch_app1(body, enc, figs, np_rng, rcParams)} :
                Handle("batch", body, enc, r)

ChartApp ==
    /\ variant = "app"
    /\ Accepting
    /\ \E body \in Bodies, enc \in 0 .. 1 :
          \E r \in {generate_chart_app(body, enc = 0, figs, np_rng, rcParams)} :
             Handle("chart", body, enc, r)

BatchApp ==
    /\ variant = "app"
    /\ Accepting
    /\ \E body \in BatchBodies :
          \E enc \in 0 .. Len(Get(body, "charts", <<>>)) :
             \E r \in {generate_batch_app(body, enc, figs, np_rng, rcParams)} :
                Handle("batch", body, enc, r)

ChartService ==
    /\ variant = "service"
    /\ Accepting
    /\ \E body \in SvcBodies, enc \in 0 .. 1 :
          \E r \in {generate_chart_service(body, enc = 0, figs, np_rng, rcParams, hashseed)} :
             Handle("chart", body, enc, r)

Next == ChartApp1 \/ BatchApp1 \/ ChartApp \/ BatchApp \/ ChartService \/ Collect

Spec == Init /\ [][Next]_vars

(***************************************************************************)
(* Vocabulary of the properties.                                           *)
(***************************************************************************)
ItemType(c) == Get(c, "type", "average")
ItemData(c) == Get(c, "data", EmptyDict)

\* the builder the running variant dispatches a known type to
BuilderOf(v, chart_type, data, rng, seed) ==
    IF v = "app1" THEN builder_app1(chart_type, data, rng)
    ELSE IF v = "app" THEN builder_app(chart_type, data, rng)
    ELSE builder_service(chart_type, data, rng, seed)

\* how building request c alone ends: "fig", "none" or "raise"; "unknown"
\* and "no object" when no builder is dispatched
BuildKind(c) ==
    IF ~IsObject(c) THEN "no object"
    ELSE IF ItemType(c) \notin KnownTypes THEN "unknown"
    ELSE BuilderOf(variant, ItemType(c), ItemData(c), np_rng, hashseed).kind

\* the response of the single-chart entry point of the running variant
ChartResponse(c, encOk) ==
    IF variant = "app1" THEN Respond(generate_chart_app1(c, encOk, figs, np_rng, rcParams))
    ELSE IF variant = "app" THEN Respond(generate_chart_app(c, encOk, figs, np_rng, rcParams))
    ELSE Respond(generate_chart_service(c, encOk, figs, np_rng, rcParams, hashseed))

\* the key of the family's list in the payload
ListKey(v, chart_type) ==
    IF chart_type = "individual" THEN "treatments"
    ELSE IF chart_type = "average" /\ v = "service" THEN "labels"
    ELSE "groups"

KnownFamily(c) == IsObject(c) /\ ItemType(c) \in KnownTypes
UnknownFamily(c) == IsObject(c) /\ ItemType(c) \notin KnownTypes
MissingList(c) == KnownFamily(c) /\ ~Has(ItemData(c), ListKey(variant, ItemType(c)))
EmptyList(c) ==
    /\ KnownFamily(c)
    /\ Has(ItemData(c), ListKey(variant, ItemType(c)))
    /\ ItemData(c)[ListKey(variant, ItemType(c))] = <<>>
\* request c with the family's list present and empty
WithEmptyList(c) ==
    [type |-> ItemType(c),
     data |-> [k \in DOMAIN ItemData(c) \cup {ListKey(variant, ItemType(c))} |->
                  IF k = ListKey(variant, ItemType(c)) THEN <<>> ELSE ItemData(c)[k]]]

NoDataMessages == {<<"No data">>, <<"No data to chart">>, <<"Failed to generate chart">>}
UnknownPrefixes == {"Unknown type", "Unknown type: ", "Unknown chart type: "}

IsImage(o) == Has(o, "image")
IsError(o) == Has(o, "error")
IsNoData(o) == IsError(o) /\ o.error \in NoDataMessages
IsUnknownType(o) == IsError(o) /\ o.error[1] \in UnknownPrefixes
Mentions(msg, word) == \E i \in DOMAIN msg : msg[i] = word
OutcomeKind(o) ==
    IF IsImage(o) THEN "image"
    ELSE IF IsNoData(o) THEN "no-data"
    ELSE IF IsUnknownType(o) THEN "unknown-type"
    ELSE "error"

IsChart == lastReq.ep = "chart"
IsBatch == lastReq.ep = "batch"
\* the batch request carried a list of charts
HasCharts == IsBatch /\ IsObject(lastReq.body) /\ Has(lastReq.body, "charts")
HasJson == Has(lastResp, "json")
HasResults == HasJson /\ Has(lastResp.json, "results")

\* C1: batch failure isolation. In a batch of N requests where building
\* request k raises and every other request builds a figure (and no encoding
\* fails), the response carries a results list of length N whose entry k is
\* an error and whose other entries are images.
C1_BatchIsolation ==
    HasCharts =>
        \A k \in DOMAIN lastReq.body.charts :
            (/\ lastReq.enc = 0
             /\ BuildKind(lastReq.body.charts[k]) = "raise"
             /\ \A i \in DOMAIN lastReq.body.charts \ {k} :
                   BuildKind(lastReq.body.charts[i]) = "fig")
            => (/\ HasResults
                /\ Len(lastResp.json.results) = Len(lastReq.body.charts)
                /\ IsError(lastResp.json.results[k])
                /\ \A i \in DOMAIN lastReq.body.charts \ {k} :
                      IsImage(lastResp.json.results[i]))

\* C2: empty input is a no-data outcome. A request of a known family whose
\* list is present and empty gets the no-data outcome (status 400 with the
\* no-data message; a no-data entry in a batch), in every entry point.
C2_EmptyIsNoData ==
    /\ (IsChart /\ EmptyList(lastReq.body))
          => (HasJson /\ lastResp.status = 400 /\ IsNoData(lastResp.json))
    /\ (HasCharts /\ HasResults)
          => \A i \in DOMAIN lastResp.json.results :
                EmptyList(lastReq.body.charts[i]) => IsNoData(lastResp.json.results[i])

\* C3: unknown chart family. A request whose type is none of the three
\* families gets a validation failure whose message contains the type value,
\* from the single-chart and from the batch entry point, and leaves the
\* figure registry untouched.
C3_UnknownTypeNamed ==
    /\ (IsChart /\ UnknownFamily(lastReq.body))
          => (/\ HasJson
              /\ lastResp.status = 400
              /\ IsUnknownType(lastResp.json)
              /\ Mentions(lastResp.json.error, ItemType(lastReq.body))
              /\ figs = figs0)
    /\ (HasCharts /\ HasResults)
          => \A i \in DOMAIN lastResp.json.results :
                UnknownFamily(lastReq.body.charts[i])
                => (/\ IsUnknownType(lastResp.json.results[i])
                    /\ Mentions(lastResp.json.results[i].error,
                                ItemType(lastReq.body.charts[i])))

\* C4: validation failure is distinct from no-data. A request of a known
\* family that lacks the family's list gets a response different from the
\* response to the same request with the list present and empty.
C4_MissingFieldDistinct ==
    (IsChart /\ MissingList(lastReq.body))
        => lastResp # ChartResponse(WithEmptyList(lastReq.body), lastReq.enc = 0)

\* C5: no unhandled fault crosses the facade. Every call of generate_chart
\* and generate_batch, whatever the body, the builder or the encoder does,
\* returns one response built by the handler: a single outcome (an image or
\* an error, not both) or a results list; no exception leaves the handler.
C5_NoUnhandledFault ==
    lastReq # NoReq =>
        /\ ~Has(lastResp, "unhandled")
        /\ HasJson
        /\ lastResp.status \in {200, 400, 500}
        /\ IF HasResults THEN IsBatch /\ ~IsImage(lastResp.json) /\ ~IsError(lastResp.json)
           ELSE IsImage(lastResp.json) # IsError(lastResp.json)

\* a body that is no object, a builder exception and an encoding exception
\* have each been answered with an error response
C5_Witness ==
    /\ lastReq # NoReq
    /\ HasJson
    /\ lastResp.status = 500
    /\ IsError(lastResp.json)
    /\ \/ lastReq.body = NullBody
       \/ lastResp.json.error = SavefigError
       \/ lastResp.json.error = <<"'ages'">>

\* C6: batch order and per-item equivalence. For a batch of N requests in
\* which no builder raises, the results list has length N and the kind of
\* results[i] is the kind of the outcome the single-chart entry point gives
\* for request i alone.
C6_BatchMatchesSingle ==
    (/\ HasCharts
     /\ \A i \in DOMAIN lastReq.body.charts : BuildKind(lastReq.body.charts[i]) # "raise")
    => (/\ HasResults
        /\ Len(lastResp.json.results) = Len(lastReq.body.charts)
        /\ \A i \in DOMAIN lastReq.body.charts :
              OutcomeKind(lastResp.json.results[i])
                 = OutcomeKind(ChartResponse(lastReq.body.charts[i], lastReq.enc # i).json))

\* C7: jitter determinism. Two renders of the same average-family request
\* with raw values, in one response or in two with any other requests in
\* between, place the raw points at the same jitter offsets.
C7_JitterDeterministic ==
    \A p \in Renders(lastReq, lastResp) :
        \A q \in jitterLog \cup Renders(lastReq, lastResp) :
            q[1] = p[1] => q[2] = p[2]

\* C8: pattern determinism. The fill pattern of an average chart is the same
\* in every process: it does not depend on the string-hash seed the process
\* happened to start with.
C8_PatternDeterministic ==
    (IsChart /\ HasJson /\ IsImage(lastResp.json) /\ lastResp.json.image.family = "average")
        => \A seed \in HashSeeds :
              lastResp.json.image.hatch
                 = BuilderOf(variant, "average", ItemData(lastReq.body), np_rng, seed).fig.hatch

\* C10: drawing resources are released on every path. When a request has
\* completed, also one whose builder or encoder raised after the figure was
\* created, the number of open figures is what it was before the request.
C10_FiguresReleased == lastReq # NoReq => figs = figs0

(***************************************************************************)
(* Concurrent builds.  app.run() serves each request on its own thread, so *)
(* builds interleave at every access to the process-wide state.  A build   *)
(* of chart_service.py runs setup_publication_style() in two writes        *)
(* (plt.style.use('default'), then plt.rcParams.update({...})), then draws *)
(* (plt.subplots and the artists read rcParams), then fig_to_base64 closes *)
(* the figure.  The builds of part_000 and app.py start at the drawing.    *)
(* seen is the style table the build drew with.                            *)
(***************************************************************************)
Families == KnownTypes

\* the first step of a build of variant v
FirstStep(v) == IF v = "service" THEN "style_use" ELSE "draw"

Begin(t) ==
    /\ threads[t].pc = "idle"
    /\ \E f \in Families :
          threads' = [threads EXCEPT ![t] = [pc |-> FirstStep(variant), family |-> f]]
    /\ UNCHANGED googleVars
    /\ UNCHANGED <<variant, rcParams, figs, np_rng, hashseed, lastReq, lastResp, figs0, jitterLog, call, ret>>

\* plt.style.use('default')
StyleUse(t) ==
    /\ threads[t].pc = "style_use"
    /\ rcParams' = style_use_default(rcParams)
    /\ threads' = [threads EXCEPT ![t].pc = "style_update"]
    /\ UNCHANGED googleVars
    /\ UNCHANGED <<variant, figs, np_rng, hashseed, lastReq, lastResp, figs0, jitterLog, call, ret>>

\* plt.rcParams.update({...})
StyleUpdate(t) ==
    /\ threads[t].pc = "style_update"
    /\ rcParams' = rcParams_update(rcParams)
    /\ threads' = [threads EXCEPT ![t].pc = "draw"]
    /\ UNCHANGED googleVars
    /\ UNCHANGED <<variant, figs, np_rng, hashseed, lastReq, lastResp, figs0, jitterLog, call, ret>>

\* plt.subplots(...) and the drawing calls
Draw(t) ==
    /\ threads[t].pc = "draw"
    /\ figs' = figs + 1
    /\ threads' = [threads EXCEPT ![t] =
                      [pc |-> "drawn", family |-> threads[t].family, seen |-> rcParams]]
    /\ UNCHANGED googleVars
    /\ UNCHANGED <<variant, rcParams, np_rng, hashseed, lastReq, lastResp, figs0, jitterLog, call, ret>>

\* fig_to_base64: savefig and plt.close(fig)
Finish(t) ==
    /\ threads[t].pc = "drawn"
    /\ figs' = figs - 1
    /\ threads' = [threads EXCEPT ![t] = [pc |-> "idle"]]
    /\ UNCHANGED googleVars
    /\ UNCHANGED <<variant, rcParams, np_rng, hashseed, lastReq, lastResp, figs0, jitterLog, call, ret>>

NextConc ==
    \/ \E t \in DOMAIN threads : Begin(t)
    \/ \E t \in DOMAIN threads : StyleUse(t)
    \/ \E t \in DOMAIN threads : StyleUpdate(t)
    \/ \E t \in DOMAIN threads : Draw(t)
    \/ \E t \in DOMAIN threads : Finish(t)

SpecConc == Init /\ [][NextConc]_vars

\* C9: style configuration is read-only after start-up. No build writes
\* rcParams once the process has started, so every build draws with the
\* complete style profile and never with a partially applied one (the
\* library defaults left by plt.style.use('default') before rcParams.update).
C9_StyleNeverPartial ==
    /\ rcParams = StartupStyle(variant)
    /\ \A t \in DOMAIN threads : threads[t].pc = "drawn" => threads[t].seen = "custom"

(***************************************************************************)
(* The chart scripts (src/chart_generator.py, src/headless_charts.py).     *)
(* A cell of the summary table is a Python str, modelled as the sequence   *)
(* of its characters, so that strip, upper, float and the order of strings *)
(* are computed on the text.                                               *)
(***************************************************************************)
\* the characters of the model's cells, in ascending code-point order
Chars == <<" ", "+", "-", "/", "0", "1", "2", "3", "4", "5", "6", "7", "8", "9",
           "A", "N", "X", "a", "n", "x">>

\* the rank of character c in code-point order
Ord(c) == CHOOSE i \in DOMAIN Chars : Chars[i] = c

Digits == {"0", "1", "2", "3", "4", "5", "6", "7", "8", "9"}

RECURSIVE StrLess(_, _)
\* a < b for two str: code-point order of the first difference, a proper
\* prefix is smaller
StrLess(a, b) ==
    IF b = <<>> THEN FALSE
    ELSE IF a = <<>> THEN TRUE
    ELSE IF a[1] # b[1] THEN Ord(a[1]) < Ord(b[1])
    ELSE StrLess(Tail(a), Tail(b))

RECURSIVE lstrip(_)
lstrip(s) == IF s # <<>> /\ s[1] = " " THEN lstrip(Tail(s)) ELSE s

RECURSIVE rstrip(_)
rstrip(s) == IF s # <<>> /\ s[Len(s)] = " " THEN rstrip(SubSeq(s, 1, Len(s) - 1)) ELSE s

\* str.strip()
strip(s) == rstrip(lstrip(s))

\* str.upper()
upper(s) ==
    [i \in DOMAIN s |-> IF s[i] = "a" THEN "A"
                        ELSE IF s[i] = "n" THEN "N"
                        ELSE IF s[i] = "x" THEN "X"
                        ELSE s[i]]

\* a Python float of the model: the cells carry whole numbers
Float(v) == [py |-> "float", v |-> v]

RECURSIVE DigitsValue(_)
DigitsValue(ds) ==
    IF ds = <<>> THEN 0
    ELSE 10 * DigitsValue(SubSeq(ds, 1, Len(ds) - 1)) + (Ord(ds[Len(ds)]) - Ord("0"))

\* the digits of a numeric literal after its sign, <<>> when t is no literal
Unsigned(t) == IF t # <<>> /\ t[1] \in {"+", "-"} THEN Tail(t) ELSE t

\* float(s) accepts blanks around an optionally signed run of digits
IsFloatLiteral(s) ==
    /\ Unsigned(strip(s)) # <<>>
    /\ \A i \in DOMAIN Unsigned(strip(s)) : Unsigned(strip(s))[i] \in Digits

\* float(s) of a literal
float(s) ==
    IF strip(s)[1] = "-" THEN 0 - DigitsValue(Unsigned(strip(s)))
    ELSE DigitsValue(Unsigned(strip(s)))

\* safe_float(value): None for '', for 'N/A' in any case and when float()
\* raises ValueError
safe_float(value) ==
    IF value = <<>> \/ upper(value) = <<"N", "/", "A">> THEN None
    ELSE IF IsFloatLiteral(value) THEN Float(float(value))
    ELSE None

(***************************************************************************)
(* numpy statistics, exact: a mean is a fraction in lowest terms, a        *)
(* standard deviation is the root of one.                                  *)
(***************************************************************************)
RECURSIVE GCD(_, _)
GCD(a, b) == IF b = 0 THEN a ELSE GCD(b, a % b)

Abs(a) == IF a < 0 THEN 0 - a ELSE a

\* num/den in lowest terms with a positive denominator; 0/0 is nan
Frac(num, den) ==
    IF den = 0 THEN [num |-> 0, den |-> 0]
    ELSE [num |-> (IF den < 0 THEN 0 - num ELSE num) \div GCD(Abs(num), Abs(den)),
          den |-> Abs(den) \div GCD(Abs(num), Abs(den))]

\* a + b, a - b and a * b of fractions
FracAdd(a, b) == Frac(a.num * b.den + b.num * a.den, a.den * b.den)
FracSub(a, b) == Frac(a.num * b.den - b.num * a.den, a.den * b.den)
FracMul(a, b) == Frac(a.num * b.num, a.den * b.den)

\* the non-negative root of q
Root(q) == [sqrt_of |-> q]

RECURSIVE SumSeq(_)
SumSeq(values) == IF values = <<>> THEN 0 ELSE values[1] + SumSeq(Tail(values))

RECURSIVE SumSquares(_)
SumSquares(values) ==
    IF values = <<>> THEN 0 ELSE values[1] * values[1] + SumSquares(Tail(values))

\* the first value in place of the mean
np_mean_first(values) == Frac(values[1], 1)

\* np.mean(values)
np_mean(values) == Frac(SumSeq(values), Len(values))

\* np.std(values, ddof): the root of sum((x - mean)^2) / (n - ddof), which is
\* (n * sum(x^2) - sum(x)^2) / (n * (n - ddof)); nan when n - ddof is 0
np_std(values, ddof) ==
    Root(Frac(Len(values) * SumSquares(values) - SumSeq(values) * SumSeq(values),
              Len(values) * (Len(values) - ddof)))

\* the population standard deviation (ddof=0)
sample_std_population(values) ==
    IF Len(values) > 1 THEN np_std(values, 0) ELSE Root(Frac(0, 1))

\* np.std(values, ddof=1) if len(values) > 1 else 0
sample_std(values) == IF Len(values) > 1 THEN np_std(values, 1) ELSE Root(Frac(0, 1))

(***************************************************************************)
(* prepare_chart_data.  A row is the record of its cells by column name;   *)
(* groups and first_names are dicts keyed by the trimmed REP_GROUP cell.   *)
(***************************************************************************)
\* the cell as it is, not trimmed
cell_text_untrimmed(cell) == cell

\* str(cell).strip() if cell else ''
cell_text(cell) == IF cell # <<>> THEN strip(cell) ELSE <<>>

\* the dicts before the first row
NoGroups == [groups |-> <<>>, first_names |-> <<>>]

\* first_names after a retained row: set on the first row of the key only
first_names_put(first_names, rep_group, sample_name) ==
    [k \in DOMAIN first_names \cup {rep_group} |->
        IF k \in DOMAIN first_names THEN first_names[k] ELSE sample_name]

\* groups[rep_group].append(value)
groups_append(groups, rep_group, value) ==
    [k \in DOMAIN groups \cup {rep_group} |->
        IF k # rep_group THEN groups[k]
        ELSE IF k \in DOMAIN groups THEN Append(groups[k], value)
        ELSE <<value>>]

\* the row is skipped: `if not rep_group or value is None: continue`
skipped(rep_group, value) == rep_group = <<>> \/ value = None

\* the loop body with the name recorded before the row is filtered
prepare_row_name_first(st, rep_group, sample_name, value) ==
    IF rep_group = <<>> THEN st
    ELSE IF value = None
    THEN [groups |-> st.groups,
          first_names |-> first_names_put(st.first_names, rep_group, sample_name)]
    ELSE [groups |-> groups_append(st.groups, rep_group, value.v),
          first_names |-> first_names_put(st.first_names, rep_group, sample_name)]

\* the body of the loop over the rows, for one row
prepare_row(st, rep_group, sample_name, value) ==
    IF skipped(rep_group, value) THEN st
    ELSE [groups |-> groups_append(st.groups, rep_group, value.v),
          first_names |-> first_names_put(st.first_names, rep_group, sample_name)]

RECURSIVE prepare_loop(_, _, _, _)
\* for row in data: ... , from row i on
prepare_loop(data, i, col_idx, st) ==
    IF i > Len(data) THEN st
    ELSE prepare_loop(data, i + 1, col_idx,
                      prepare_row(st,
                                  cell_text(data[i].REP_GROUP),
                                  cell_text(data[i].SAMPLE_NAME),
                                  safe_float(data[i][col_idx])))

\* the smallest str when shorter strings come first (numeric-looking order)
MinStr_shortlex(S) ==
    CHOOSE k \in S : \A o \in S :
        o = k \/ Len(k) < Len(o) \/ (Len(k) = Len(o) /\ StrLess(k, o))

\* the smallest str of a non-empty set
MinStr(S) == CHOOSE k \in S : \A o \in S : o = k \/ StrLess(k, o)

RECURSIVE sorted(_)
\* sorted(keys) for a set of str
sorted(S) == IF S = {} THEN <<>> ELSE <<MinStr(S)>> \o sorted(S \ {MinStr(S)})

\* "Group " as a str
GroupPrefix == <<"G", "r", "o", "u", "p", " ">>

\* the label without the fallback
label_of_no_fallback(first_name, rep_group) == first_name

\* first_names[rep_group] or f"Group {rep_group}"
label_of(first_name, rep_group) ==
    IF first_name # <<>> THEN first_name ELSE GroupPrefix \o rep_group

\* the statistics loop over sorted(groups.keys()) and the returned dict
chart_data_of(st, keys) ==
    [labels |-> [j \in DOMAIN keys |-> label_of(st.first_names[keys[j]], keys[j])],
     means |-> [j \in DOMAIN keys |-> np_mean(st.groups[keys[j]])],
     stds |-> [j \in DOMAIN keys |-> sample_std(st.groups[keys[j]])],
     raw_values |-> [j \in DOMAIN keys |-> st.groups[keys[j]]]]

\* the lists also when no row was kept
prepared_lists(st) == chart_data_of(st, sorted(DOMAIN st.groups))

\* the part of prepare_chart_data after the loop over the rows
prepared(st) ==
    IF DOMAIN st.groups = {} THEN None ELSE chart_data_of(st, sorted(DOMAIN st.groups))

prepare_chart_data(data, chart_def) == prepared(prepare_loop(data, 1, chart_def.col, NoGroups))

(***************************************************************************)
(* Rows of the summary table.                                              *)
(***************************************************************************)
Row(group, sample_name, rep_group, age, lf) ==
    [GROUP |-> group, SAMPLE_NAME |-> sample_name, REP_GROUP |-> rep_group,
     AGE |-> age, LF |-> lf]

\* rows for prepare_chart_data: keys "2", "10", " 2", blank and empty keys,
\* values that parse and values that do not, names present and empty
SummaryRows ==
    {Row(<<"1">>, <<"S", "2">>, <<"2">>, <<"1">>, <<"1">>),
     Row(<<"1">>, <<>>, <<"2">>, <<"1">>, <<"3">>),
     Row(<<"1">>, <<"S", "1", "0">>, <<"1", "0">>, <<"1">>, <<"3">>),
     Row(<<"1">>, <<"T">>, <<" ", "2">>, <<"1">>, <<" ", "5">>),
     Row(<<"1">>, <<"X">>, <<>>, <<"1">>, <<"1">>),
     Row(<<"1">>, <<"X">>, <<" ">>, <<"1">>, <<"1">>),
     Row(<<"1">>, <<"N">>, <<"2">>, <<"1">>, <<"n", "/", "a">>),
     Row(<<"1">>, <<>>, <<"1", "0">>, <<"1">>, <<"x">>),
     Row(<<"1">>, <<" ">>, <<"1", "0">>, <<"1">>, <<"-", "1">>),
     Row(<<"1">>, <<"L">>, <<"2">>, <<"1">>, <<>>)}

\* CHART_DEFS[0]
LFChartDef == [title |-> "LF Media (ng/ml)", col |-> "LF"]

(***************************************************************************)
(* create_time_course_chart: groups is a dict of dicts, series name ->     *)
(* age -> the LF values of that pair.                                      *)
(***************************************************************************)
\* groups[group][age].append(lf)
series_append(groups, group, age, lf) ==
    [g \in DOMAIN groups \cup {group} |->
        IF g # group THEN groups[g]
        ELSE groups_append(IF g \in DOMAIN groups THEN groups[g] ELSE <<>>, age, lf)]

\* the row is skipped: `if not group or age is None or lf is None: continue`
skipped_point(group, age, lf) == group = <<>> \/ age = None \/ lf = None

time_row(groups, group, age, lf) ==
    IF skipped_point(group, age, lf) THEN groups
    ELSE series_append(groups, group, age.v, lf.v)

RECURSIVE time_loop(_, _, _)
\* for row in data: ... , from row i on
time_loop(data, i, groups) ==
    IF i > Len(data) THEN groups
    ELSE time_loop(data, i + 1,
                   time_row(groups,
                            cell_text(data[i].GROUP),
                            safe_float(data[i].AGE),
                            safe_float(data[i].LF)))

RECURSIVE sorted_numbers_descending(_)
RECURSIVE sorted_numbers(_)
\* the ages from the largest down
sorted_numbers_descending(S) ==
    IF S = {} THEN <<>>
    ELSE LET m == CHOOSE a \in S : \A o \in S : a >= o
         IN  <<m>> \o sorted_numbers_descending(S \ {m})

\* sorted(age_data.keys()) for a set of numbers
sorted_numbers(S) ==
    IF S = {} THEN <<>>
    ELSE LET m == CHOOSE a \in S : \A o \in S : a <= o
         IN  <<m>> \o sorted_numbers(S \ {m})

\* colors of create_time_course_chart
LineColors == <<"#1f77b4", "#ff7f0e", "#2ca02c", "#d62728", "#9467bd">>

\* the errorbar line of the i-th series (i from 0)
time_series(i, group_name, age_data, ages) ==
    [label |-> GroupPrefix \o group_name,
     ages |-> ages,
     means |-> [j \in DOMAIN ages |-> np_mean(age_data[ages[j]])],
     stds |-> [j \in DOMAIN ages |-> sample_std(age_data[ages[j]])],
     color |-> LineColors[(i % Len(LineColors)) + 1]]

\* the loop over enumerate(sorted(groups.items())): the lines of the axes
time_lines(groups, names) ==
    [i \in DOMAIN names |->
        time_series(i - 1, names[i], groups[names[i]],
                    sorted_numbers(DOMAIN groups[names[i]]))]

\* the part of create_time_course_chart after the loop over the rows
time_chart(groups) ==
    IF DOMAIN groups = {} THEN None
    ELSE [axes |-> "LF Media Over Time", lines |-> time_lines(groups, sorted(DOMAIN groups))]

create_time_course_chart(data) == time_chart(time_loop(data, 1, <<>>))

\* rows for create_time_course_chart: series "2", "10", " 2", several ages,
\* two values at one age, cells that do not parse
TimeRows ==
    {Row(<<"2">>, <<>>, <<>>, <<"2">>, <<"1">>),
     Row(<<"2">>, <<>>, <<>>, <<"1", "0">>, <<"3">>),
     Row(<<"2">>, <<>>, <<>>, <<"2">>, <<"5">>),
     Row(<<"1", "0">>, <<>>, <<>>, <<"2">>, <<"3">>),
     Row(<<"1", "0">>, <<>>, <<>>, <<"1", "0">>, <<"1">>),
     Row(<<" ", "2">>, <<>>, <<>>, <<" ", "2">>, <<"-", "1">>),
     Row(<<>>, <<>>, <<>>, <<"2">>, <<"1">>),
     Row(<<"2">>, <<>>, <<>>, <<"x">>, <<"1">>),
     Row(<<"1", "0">>, <<>>, <<>>, <<"2">>, <<"n", "/", "a">>),
     Row(<<" ">>, <<>>, <<>>, <<"1">>, <<"1">>)}


(***************************************************************************)
(* The vertical axis of the average charts.  Axis limits are in hundredths *)
(* of the data unit, so that ymax * 1.15 is the integer 115 * ymax.        *)
(***************************************************************************)
\* ax.set_ylim(bottom, top): matplotlib keeps the two limits as given, also
\* when top < bottom (an inverted axis), and widens identical limits, which
\* here are 0 and 0, to -0.05 and 0.05
set_ylim(bottom, top) ==
    IF bottom = top THEN [bottom |-> bottom - 5, top |-> top + 5]
    ELSE [bottom |-> bottom, top |-> top]

RECURSIVE MaxNum(_)
\* max(...) of a non-empty sequence of numbers
MaxNum(xs) ==
    IF Len(xs) = 1 THEN xs[1]
    ELSE LET m == MaxNum(Tail(xs))
         IN  IF xs[1] > m THEN xs[1] ELSE m

\* ymax * 1.15 with no lower bound on ymax
headroom(ymax) == 115 * ymax

\* ymax = max(m + s for m, s in zip(means, stds)) if means else 1;
\* ax.set_ylim(bottom=0, top=ymax * 1.15)
avg_ylim(means, stds) ==
    LET n == IF Len(means) < Len(stds) THEN Len(means) ELSE Len(stds)
        sums == [i \in 1 .. n |-> means[i] + stds[i]]
        ymax == IF means # <<>> THEN MaxNum(sums) ELSE 1
    IN  set_ylim(0, headroom(ymax))

\* labels, means and stds as build_avg_chart of part_000 and app.py read them
group_labels(groups) == [i \in DOMAIN groups |-> groups[i].label]
group_means(groups) == [i \in DOMAIN groups |-> groups[i].mean]
group_stds(groups) == [i \in DOMAIN groups |-> Get(groups[i], "std", 0)]

\* the axis limits of the figure build_avg_chart returns (part_000:107-108,
\* app.py:119-120)
avg_ylim_app(data) == avg_ylim(group_means(data.groups), group_stds(data.groups))

\* chart_service.py:130-131, on the lists of the payload
avg_ylim_service(data) == avg_ylim(data.means, data.stds)

\* chart_generator.py:253-256: the ceiling is set when both lists are
\* non-empty; otherwise only the floor is set (ax.set_ylim(bottom=0))
avg_ylim_scripts(means, stds) ==
    IF means # <<>> /\ stds # <<>> THEN avg_ylim(means, stds)
    ELSE [bottom |-> 0]

(***************************************************************************)
(* Colour and pattern tables.                                              *)
(***************************************************************************)
\* part_000:22-26 and app.py:26-30
BRAND ==
    <<"#1A8A8A", "#228CC0", "#E69138", "#CC6783", "#8E7CC3",
      "#38A38B", "#5B78B5", "#D4577B", "#6AA84F", "#E7BE3F",
      "#2D6A6A", "#3A7FD5", "#D4A843", "#7A9BBF", "#B85C3A">>

\* chart_service.py:33-36
COLORS ==
    <<"#1f77b4", "#ff7f0e", "#2ca02c", "#d62728", "#9467bd",
      "#8c564b", "#e377c2", "#7f7f7f", "#bcbd22", "#17becf">>

\* HATCHES of chart_generator.py:72 and headless_charts.py:73
HATCHES_scripts ==
    <<"", "///", "xxx", "...", "+++", "\\\\\\", "ooo", "***", "OOO", "---",
      "|||", "===", "+++", "***", "ooo">>

\* the 'color' of the CHART_DEFS entries, in order (chart_generator.py:53-69)
CHART_DEFS_color ==
    <<"#1f77b4", "#ff7f0e", "#2ca02c", "#d62728", "#9467bd",
      "#8c564b", "#e377c2", "#7f7f7f", "#bcbd22", "#17becf",
      "#1f77b4", "#ff7f0e", "#2ca02c", "#d62728", "#9467bd">>

\* table[i % len(table)] for a 0-based index i
Cycle(table, i) == table[(i % Len(table)) + 1]

(***************************************************************************)
(* create_publication_chart of the scripts.  chart_data carries the lists  *)
(* prepare_chart_data returned, here with whole-number means and stds.     *)
(***************************************************************************)
(***************************************************************************)
(* Bar width and tick labels of the average charts.  Widths are in         *)
(* hundredths of the distance between two groups.                          *)
(***************************************************************************)
\* bar_width = 0.55 if len(labels) <= 6 else 0.7 (app.py:95, part_000:83)
bar_width(n) == IF n <= 6 THEN 55 ELSE 70

\* width = 0.6 (chart_service.py:95, chart_generator.py:217)
width == 60

\* ax.set_xticklabels(labels, rotation=45 if rotate else 0,
\*                    ha='right' if rotate else 'center')
set_xticklabels(rotate) ==
    [rotation |-> IF rotate THEN 45 ELSE 0, ha |-> IF rotate THEN "right" ELSE "center"]

\* need_rotate = any(len(str(l)) > 5 for l in labels) (part_000:99)
xticklabels_app1(labels) == set_xticklabels(\E i \in DOMAIN labels : len_str(labels[i]) > 5)

\* max(len(l) for l in labels) > 6 (app.py:113-114), for labels that are str
xticklabels_app(labels) == set_xticklabels(\E i \in DOMAIN labels : Len(labels[i].str) > 6)

\* max(len(str(l)) for l in labels) > 6 (chart_service.py:119-120)
xticklabels_service(labels) == set_xticklabels(\E i \in DOMAIN labels : len_str(labels[i]) > 6)

\* max_label_len = max(len(str(l)) for l in labels) if labels else 0
\* (chart_generator.py:243-246)
xticklabels_scripts(labels) ==
    set_xticklabels(labels # <<>> /\ \E i \in DOMAIN labels : len_str(labels[i]) > 6)

create_publication_chart(chart_data, chart_def, chart_index) ==
    [axes |-> chart_def.title,
     family |-> "average",
     n |-> Len(chart_data.labels),
     width |-> width,
     color |-> chart_def.color,
     hatch |-> Cycle(HATCHES_scripts, chart_index),
     jitter |-> [i \in DOMAIN chart_data.raw_values |->
                    jitter_service(chart_data.raw_values, i)],
     xticklabels |-> xticklabels_scripts(chart_data.labels),
     ylim |-> avg_ylim_scripts(chart_data.means, chart_data.stds)]

\* main: for i, chart_def in enumerate(CHART_DEFS)
ChartIndexes == 0 .. (Len(CHART_DEFS_color) - 1)
ChartDef(i) == [title |-> "LF Media (ng/ml)", col |-> "LF", color |-> CHART_DEFS_color[i + 1]]

\* bars: a mean and a std, among them zero and negative means
BarMeans == {-2, 0, 3}
BarStds == {0, 1}
Bars == {[label |-> PyStr("A"), mean |-> m, std |-> s] : m \in BarMeans, s \in BarStds}

\* the chart_data of the groups gs
ChartDataOf(gs) ==
    [labels |-> [i \in DOMAIN gs |-> gs[i].label],
     means |-> [i \in DOMAIN gs |-> gs[i].mean],
     stds |-> [i \in DOMAIN gs |-> gs[i].std],
     raw_values |-> [i \in DOMAIN gs |-> Get(gs[i], "raw", <<>>)]]

\* average payloads of the services built from the same bars
AvgOf(gs) == [title |-> "LF", groups |-> gs]
SvcAvgOf(gs) ==
    [title |-> "LF",
     labels |-> [i \in DOMAIN gs |-> gs[i].label],
     means |-> [i \in DOMAIN gs |-> gs[i].mean],
     stds |-> [i \in DOMAIN gs |-> gs[i].std]]

\* labels of 1, 6 and 7 characters and a label that is a number
BarLabels == {PyStr("A"), PyStr("Sample"), PyStr("Control"), PyInt(1234567)}

\* more groups than the bar width distinguishes
ManyGroups == 7

\* two groups with their raw values
RawBars ==
    <<[label |-> PyStr("A"), mean |-> 11, std |-> 1, raw |-> <<10, 12, 11>>],
      [label |-> PyStr("A"), mean |-> 21, std |-> 1, raw |-> <<20, 22>>]>>

\* bar lists: every list of up to MaxGroups bars, the same with every list
\* of labels, one list of ManyGroups bars and the two groups with raw values
BarLists ==
    (SeqsUpTo(Bars, MaxGroups) \ {<<>>})
    \cup {[i \in DOMAIN ls |-> [label |-> ls[i], mean |-> 3, std |-> 1]] :
             ls \in SeqsUpTo(BarLabels, MaxGroups) \ {<<>>}}
    \cup {[i \in 1 .. ManyGroups |-> [label |-> PyStr("A"), mean |-> 3, std |-> 1]]}
    \cup {RawBars}

(***************************************************************************)
(* The bars of the individual charts (build_ind_chart of part_000 and      *)
(* app.py, create_ind_chart of chart_service.py: the same loop over the    *)
(* treatments, with the palette BRAND or COLORS).                          *)
(***************************************************************************)
RECURSIVE Zeros(_)
\* [0] * k, the empty list for k <= 0
Zeros(k) == IF k <= 0 THEN <<>> ELSE Append(Zeros(k - 1), 0)

\* the values drawn as they are, with no bar for a missing replicate
padded_not(values, max_reps) == values

\* t['values'] + [0] * (max_reps - len(t['values'])): a new list
padded(values, max_reps) == values \o Zeros(max_reps - Len(values))

\* the loop body for treatment ti (0-based): the bars it draws, one per
\* entry of vals, and the treatment as the loop leaves it in the caller's
\* payload; list + list does not write to t['values']
\* bar_width = 0.8 / n_treatments
ind_bar_width(n_treatments) == Frac(8, 10 * n_treatments)

\* the bars of every treatment at the centre of the cluster
offset_centred(ti, n_treatments) == Frac(0, 1)

\* offset = (ti - n_treatments / 2 + 0.5) * bar_width
offset(ti, n_treatments) ==
    FracMul(FracAdd(FracSub(Frac(ti, 1), Frac(n_treatments, 2)), Frac(1, 2)),
            ind_bar_width(n_treatments))

ind_bars(t, ti, max_reps, palette, n_treatments) ==
    [bars |-> [label |-> t.name, color |-> Cycle(palette, ti),
               vals |-> padded(t.values, max_reps),
               offset |-> offset(ti, n_treatments),
               width |-> ind_bar_width(n_treatments)],
     after |-> t]

\* the palette of the builders of variant v
PaletteOf(v) == IF v = "service" THEN COLORS ELSE BRAND

\* what the builder drew, and the treatments of the payload after the call
ind_drawn(v, data) ==
    LET treatments == data.treatments
        max_reps == MaxLen(treatments)
        loop == [i \in DOMAIN treatments |->
                    ind_bars(treatments[i], i - 1, max_reps, PaletteOf(v), Len(treatments))]
    IN  [bars |-> [i \in DOMAIN treatments |-> loop[i].bars],
         treatments |-> [i \in DOMAIN treatments |-> loop[i].after]]

\* treatments of zero, one and two replicates
Treatments ==
    {[name |-> "A", values |-> <<>>],
     [name |-> "A", values |-> <<1>>],
     [name |-> "B", values |-> <<4, 5>>]}

IndOf(ts) == [title |-> "LF", treatments |-> ts]

\* the individual payloads a builder is called on
IndInputs ==
    IndData
    \cup {IndOf(ts) : ts \in SeqsUpTo(Treatments, MaxGroups) \ {<<>>}}
    \cup {IndOf([i \in 1 .. ManyGroups |-> [name |-> "A", values |-> <<1>>]])}

(***************************************************************************)
(* The lines of the time-course charts of the services (build_time_chart   *)
(* of part_000 and app.py, create_time_chart of chart_service.py): one     *)
(* errorbar line per series, in the order of the request's list.           *)
(***************************************************************************)
\* label=g['name'] in part_000 and app.py, f"Group {group['name']}" in
\* chart_service.py
series_label(v, name) == IF v = "service" THEN GroupPrefix \o name ELSE name

\* the loop body for series gi (0-based)
series_line(v, g, gi) ==
    [label |-> series_label(v, g.name),
     color |-> Cycle(PaletteOf(v), gi),
     ages |-> g.ages,
     means |-> g.means,
     stds |-> Get(g, "stds", Zeros(Len(g.means)))]

\* for gi, g in enumerate(groups): the lines in drawing order
time_drawn(v, data) ==
    [lines |-> [i \in DOMAIN data.groups |-> series_line(v, data.groups[i], i - 1)]]

\* series of a request: names '2', '10' and 'A', the last without stds
SeriesSet ==
    {[name |-> <<"2">>, ages |-> <<1, 2>>, means |-> <<3, 4>>, stds |-> <<0, 1>>],
     [name |-> <<"1", "0">>, ages |-> <<1, 2>>, means |-> <<5, 4>>, stds |-> <<1, 1>>],
     [name |-> <<"A">>, ages |-> <<2>>, means |-> <<1>>]}

TimeOf(gs) == [title |-> "LF", groups |-> gs]

\* the time-course payloads a builder is called on
TimeInputs == {NoList, TimeEmpty} \cup {TimeOf(gs) : gs \in SeqsUpTo(SeriesSet, MaxGroups) \ {<<>>}}
(***************************************************************************)
(* The chart functions called one at a time: the functions of the scripts  *)
(* on tables of at most MaxRows rows, the builders of the services on      *)
(* payloads of at most MaxGroups groups.                                   *)
(***************************************************************************)
processVars == <<variant, rcParams, figs, np_rng, hashseed, lastReq, lastResp, figs0,
                 jitterLog, threads>>

\* the scripts: two copies of the same functions
Scripts == {"chart_generator", "headless_charts"}

\* the library's style until a script calls setup_publication_style()
StartupStyleOf(v) == IF v \in Scripts THEN "default" ELSE StartupStyle(v)

\* a process of any of the five programs, with no figure
InitCalls ==
    /\ variant \in Variants \cup Scripts
    /\ rcParams = StartupStyleOf(variant)
    /\ figs = 0
    /\ figs0 = 0
    /\ np_rng \in (IF variant = "app" THEN RngStates ELSE {0})
    /\ hashseed \in (IF variant = "service" THEN HashSeeds ELSE {0})
    /\ lastReq = NoReq
    /\ lastResp = NoResp
    /\ jitterLog = {}
    /\ threads = IdleThreads
    /\ drive = <<>>
    /\ runs = NoRuns
    /\ sheet = NoSheet
    /\ call = NoCall
    /\ ret = None

\* the value returned is a figure
IsFigure(r) == "axes" \in DOMAIN r

\* a call of a function of the scripts that writes no process-wide state
Call(fn, args, result) ==
    /\ call' = [fn |-> fn, args |-> args]
    /\ ret' = result
    /\ UNCHANGED googleVars
    /\ UNCHANGED processVars

\* a call of a chart function: setup_publication_style() first, and the
\* figure it returns is open in pyplot's registry
CallChart(fn, args, result) ==
    /\ call' = [fn |-> fn, args |-> args]
    /\ ret' = result
    /\ rcParams' = setup_publication_style(rcParams)
    /\ figs' = IF IsFigure(result) THEN figs + 1 ELSE figs
    /\ UNCHANGED googleVars
    /\ UNCHANGED <<variant, np_rng, hashseed, lastReq, lastResp, figs0, jitterLog, threads>>

\* an exception raised by a builder, as the caller sees it
Exception(exc) == [py |-> "raise", exc |-> exc]

\* the figure a builder of the services returned, with what it drew on it
Drawn(b, drawn) == [axes |-> b.fig.family, fig |-> b.fig, drawn |-> drawn]

\* a call of a builder of the services that ended with b: the figure it
\* opened is in pyplot's registry, also when it raised afterwards; the
\* builders of chart_service.py start with setup_publication_style()
CallBuilder(fn, args, b, drawn) ==
    /\ call' = [fn |-> fn, args |-> args]
    /\ ret' = IF b.kind = "fig" THEN Drawn(b, drawn)
              ELSE IF b.kind = "none" THEN None
              ELSE Exception(b.exc)
    /\ figs' = figs + b.opened
    /\ np_rng' = b.rng
    /\ rcParams' = IF variant = "service" THEN setup_publication_style(rcParams) ELSE rcParams
    /\ UNCHANGED googleVars
    /\ UNCHANGED <<variant, hashseed, lastReq, lastResp, figs0, jitterLog, threads>>

\* the caller has used the result; main and fig_to_base64 save a figure and
\* close it
Returned ==
    /\ call # NoCall
    /\ call' = NoCall
    /\ ret' = None
    /\ figs' = IF IsFigure(ret) THEN figs - 1 ELSE figs
    /\ UNCHANGED googleVars
    /\ UNCHANGED <<variant, rcParams, np_rng, hashseed, lastReq, lastResp, figs0, jitterLog,
                   threads>>

\* the tables the functions of the scripts are called on
SummaryTables == SeqsUpTo(SummaryRows, MaxRows)
TimeTables == SeqsUpTo(TimeRows, MaxRows)

\* a function is called when the previous call has returned
Idle == call = NoCall

PrepareChartData ==
    /\ Idle
    /\ variant \in Scripts
    /\ \E data \in SummaryTables :
        Call("prepare_chart_data", [data |-> data, chart_def |-> LFChartDef],
             prepare_chart_data(data, LFChartDef))

CreatePublicationChart ==
    /\ Idle
    /\ variant \in Scripts
    /\ \E gs \in BarLists, i \in ChartIndexes :
        CallChart("create_publication_chart",
                  [chart_data |-> ChartDataOf(gs), chart_def |-> ChartDef(i), chart_index |-> i],
                  create_publication_chart(ChartDataOf(gs), ChartDef(i), i))

CreateTimeCourseChart ==
    /\ Idle
    /\ variant \in Scripts
    /\ \E data \in TimeTables :
        CallChart("create_time_course_chart", [data |-> data], create_time_course_chart(data))

\* the average payloads a builder of variant v is called on
AvgInputs(v) ==
    IF v = "service" THEN SvcAvgData \cup {SvcAvgOf(gs) : gs \in BarLists}
    ELSE AvgData \cup {AvgOf(gs) : gs \in BarLists}

\* what build_avg_chart / create_avg_chart drew on the axes of its figure
avg_drawn(v, data) ==
    [ylim |-> IF v = "service" THEN avg_ylim_service(data) ELSE avg_ylim_app(data),
     width |-> IF v = "service" THEN width ELSE bar_width(Len(data.groups)),
     xticklabels |-> IF v = "service" THEN xticklabels_service(data.labels)
                     ELSE IF v = "app" THEN xticklabels_app(group_labels(data.groups))
                     ELSE xticklabels_app1(group_labels(data.groups))]

BuildAvgChart ==
    /\ Idle
    /\ variant \in Variants
    /\ figs < MaxFigs
    /\ \E data \in AvgInputs(variant) :
        CallBuilder("build_avg_chart", [data |-> data],
                    BuilderOf(variant, "average", data, np_rng, hashseed),
                    avg_drawn(variant, data))

BuildIndChart ==
    /\ Idle
    /\ variant \in Variants
    /\ figs < MaxFigs
    /\ \E data \in IndInputs :
        CallBuilder("build_ind_chart", [data |-> data],
                    BuilderOf(variant, "individual", data, np_rng, hashseed),
                    ind_drawn(variant, data))

BuildTimeChart ==
    /\ Idle
    /\ variant \in Variants
    /\ figs < MaxFigs
    /\ \E data \in TimeInputs :
        CallBuilder("build_time_chart", [data |-> data],
                    BuilderOf(variant, "timecourse", data, np_rng, hashseed),
                    time_drawn(variant, data))

(***************************************************************************)
(* main of chart_generator.py: one turn of the loop over CHART_DEFS.       *)
(***************************************************************************)
\* chart_data = prepare_chart_data(data, chart_def); if chart_data is None:
\* continue; otherwise create_publication_chart(chart_data, chart_def, i) is
\* called, the figure saved and closed and charts_generated incremented.
\* The result records what the builder was called with.
MainChart ==
    /\ Idle
    /\ variant \in Scripts
    /\ \E data \in SummaryTables :
        \E chart_data \in {prepare_chart_data(data, LFChartDef)} :
            /\ call' = [fn |-> "main", args |-> [data |-> data, chart_def |-> LFChartDef]]
            /\ ret' = IF chart_data = None THEN [charts_generated |-> 0]
                      ELSE [charts_generated |-> 1, chart_data |-> chart_data]
            /\ rcParams' = IF chart_data = None THEN rcParams
                           ELSE setup_publication_style(rcParams)
            /\ UNCHANGED googleVars
            /\ UNCHANGED <<variant, figs, np_rng, hashseed, lastReq, lastResp, figs0,
                           jitterLog, threads>>

NextCalls ==
    \/ PrepareChartData
    \/ CreatePublicationChart
    \/ CreateTimeCourseChart
    \/ MainChart
    \/ BuildAvgChart
    \/ BuildIndChart
    \/ BuildTimeChart
    \/ Returned

SpecCalls == InitCalls /\ [][NextCalls]_vars

(***************************************************************************)
(* headless_charts.py main: generate the charts, upload each to the Drive   *)
(* folder, make it viewable, then write the 'Charts' tab.  Every call of a  *)
(* Google API is a step of its own, and may raise; main catches nothing     *)
(* after the charts are generated, so the exception ends the run.  Two runs *)
(* of the script work on the same folder and spreadsheet.  A file id is the *)
(* position of the file in drive.                                           *)
(***************************************************************************)
\* the charts of a run in generation order: the first two CHART_DEFS, then
\* the time course (title, fname)
Charts ==
    <<[title |-> "LF Media (ng/ml)", fname |-> "LF_Media.png"],
      [title |-> "Expression Level (%)", fname |-> "Expression_Level.png"],
      [title |-> "LF Media Over Time", fname |-> "LF_Time_Course.png"]>>

\* how generating one chart ends: appended to generated, skipped for lack of
\* data (prepare_chart_data or create_time_course_chart returned None), or
\* an exception, which main prints
Outcomes == {"generated", "no data", "error"}

\* every chart in the list, whatever its outcome
generated_all(outcomes, k) == SubSeq(Charts, 1, k)

RECURSIVE generated_of(_, _)
\* the list 'generated' after the first k charts
generated_of(outcomes, k) ==
    IF k = 0 THEN <<>>
    ELSE IF outcomes[k] = "generated" THEN Append(generated_of(outcomes, k - 1), Charts[k])
    ELSE generated_of(outcomes, k - 1)

\* what the upload and the export leave alone
chartVars ==
    <<variant, rcParams, figs, np_rng, hashseed, lastReq, lastResp, figs0, jitterLog, threads,
      call, ret>>

\* the locals of main at a point pc
Locals(pc, outcomes, generated, k, existing, file_id, chart_files) ==
    [pc |-> pc, outcomes |-> outcomes, generated |-> generated, k |-> k,
     existing |-> existing, file_id |-> file_id, chart_files |-> chart_files]

\* the run before main generates the charts
Started == [pc |-> "generate"]

\* run r at pc with k charts uploaded
At(r, pc, k, existing, file_id, chart_files) ==
    Locals(pc, runs[r].outcomes, runs[r].generated, k, existing, file_id, chart_files)

\* the run has ended: it returned, or an exception of the call named left main
Ended(r, how) == Locals(how, runs[r].outcomes, runs[r].generated, 0, {}, 0, <<>>)

\* [3/4] the loop over CHART_DEFS and the time course chart, then
\* 'if args.no_upload: return'
Generate(r) ==
    /\ runs[r].pc = "generate"
    /\ \E outcomes \in [DOMAIN Charts -> Outcomes], no_upload \in BOOLEAN :
          runs' = [runs EXCEPT ![r] =
                      Locals(IF no_upload THEN "done" ELSE "folder", outcomes,
                             generated_of(outcomes, Len(Charts)), 0, {}, 0, <<>>)]
    /\ UNCHANGED <<drive, sheet>>
    /\ UNCHANGED chartVars

\* the pc of the upload loop after k charts
loop_pc(r, k) == IF k < Len(runs[r].generated) THEN "query" ELSE "clear"

\* folder_id = get_or_create_drive_folder(drive_service, 'Asterix Charts'):
\* the folder exists
GetFolder(r) ==
    /\ runs[r].pc = "folder"
    /\ \E ok \in BOOLEAN :
          runs' = [runs EXCEPT ![r] =
                      IF ok THEN At(r, loop_pc(r, 0), 0, {}, 0, <<>>)
                      ELSE Ended(r, "folder failed")]
    /\ UNCHANGED <<drive, sheet>>
    /\ UNCHANGED chartVars

\* upload_png_to_drive: results = drive_service.files().list(q=...).execute();
\* existing = results.get('files', [])
ListFiles(r) ==
    /\ runs[r].pc = "query"
    /\ \E ok \in BOOLEAN :
          runs' = [runs EXCEPT ![r] =
                      IF ok
                      THEN At(r, "write", runs[r].k,
                              {id \in DOMAIN drive :
                                  drive[id].name = runs[r].generated[runs[r].k + 1].fname},
                              0, runs[r].chart_files)
                      ELSE Ended(r, "list failed")]
    /\ UNCHANGED <<drive, sheet>>
    /\ UNCHANGED chartVars

\* files().update(fileId=existing[0]['id'], ...) of a file the query listed
UpdateFile(r) ==
    /\ runs[r].pc = "write"
    /\ \E id \in runs[r].existing :
          /\ drive' = [drive EXCEPT ![id].uploads = @ \cup {r}]
          /\ runs' = [runs EXCEPT ![r] = At(r, "permit", runs[r].k, {}, id, runs[r].chart_files)]
    /\ UNCHANGED sheet
    /\ UNCHANGED chartVars

\* files().create(body=metadata, ...) when the query listed no file
CreateFile(r) ==
    /\ runs[r].pc = "write"
    /\ runs[r].existing = {}
    /\ drive' = Append(drive, [name |-> runs[r].generated[runs[r].k + 1].fname,
                               created_by |-> r, uploads |-> {r}, viewable |-> {}])
    /\ runs' = [runs EXCEPT ![r] =
                   At(r, "permit", runs[r].k, {}, Len(drive) + 1, runs[r].chart_files)]
    /\ UNCHANGED sheet
    /\ UNCHANGED chartVars

\* the update or create call raises
WriteFails(r) ==
    /\ runs[r].pc = "write"
    /\ runs' = [runs EXCEPT ![r] = Ended(r, "write failed")]
    /\ UNCHANGED <<drive, sheet>>
    /\ UNCHANGED chartVars

\* make_file_viewable(drive_service, file_id);
\* chart_files.append((title, file_id))
MakeViewable(r) ==
    /\ runs[r].pc = "permit"
    /\ \/ /\ drive' = [drive EXCEPT ![runs[r].file_id].viewable = @ \cup {r}]
          /\ runs' = [runs EXCEPT ![r] =
                         At(r, loop_pc(r, runs[r].k + 1), runs[r].k + 1, {}, 0,
                            Append(runs[r].chart_files,
                                   [title |-> runs[r].generated[runs[r].k + 1].title,
                                    file_id |-> runs[r].file_id]))]
       \/ /\ runs' = [runs EXCEPT ![r] = Ended(r, "permission failed")]
          /\ UNCHANGED drive
    /\ UNCHANGED sheet
    /\ UNCHANGED chartVars

\* export_charts_to_sheet: charts_ws.clear(), or add_worksheet when there is
\* no 'Charts' tab
ClearSheet(r) ==
    /\ runs[r].pc = "clear"
    /\ \/ /\ sheet' = [state |-> "cleared", by |-> r, cells |-> <<>>]
          /\ runs' = [runs EXCEPT ![r].pc = "update_cells"]
       \/ /\ runs' = [runs EXCEPT ![r] = Ended(r, "sheet failed")]
          /\ UNCHANGED sheet
    /\ UNCHANGED chartVars
    /\ UNCHANGED drive
    /\ UNCHANGED chartVars

\* charts_ws.update_cells(cells, ...): a title and an IMAGE formula of the
\* file id for every entry of chart_files; main returns
UpdateCells(r) ==
    /\ runs[r].pc = "update_cells"
    /\ \/ /\ sheet' = [state |-> "written", by |-> r, cells |-> runs[r].chart_files]
          /\ runs' = [runs EXCEPT ![r] = Ended(r, "done")]
       \/ /\ runs' = [runs EXCEPT ![r] = Ended(r, "sheet failed")]
          /\ UNCHANGED sheet
    /\ UNCHANGED chartVars
    /\ UNCHANGED drive
    /\ UNCHANGED chartVars

InitDrive ==
    /\ variant = "headless_charts"
    /\ rcParams = StartupStyleOf(variant)
    /\ figs = 0
    /\ figs0 = 0
    /\ np_rng = 0
    /\ hashseed = 0
    /\ lastReq = NoReq
    /\ lastResp = NoResp
    /\ jitterLog = {}
    /\ threads = IdleThreads
    /\ call = NoCall
    /\ ret = None
    /\ drive = <<>>
    /\ runs = [r \in Runs |-> Started]
    /\ sheet = NoSheet

NextDrive ==
    \/ \E r \in Runs : Generate(r)
    \/ \E r \in Runs : GetFolder(r)
    \/ \E r \in Runs : ListFiles(r)
    \/ \E r \in Runs : UpdateFile(r)
    \/ \E r \in Runs : CreateFile(r)
    \/ \E r \in Runs : WriteFails(r)
    \/ \E r \in Runs : MakeViewable(r)
    \/ \E r \in Runs : ClearSheet(r)
    \/ \E r \in Runs : UpdateCells(r)

SpecDrive == InitDrive /\ [][NextDrive]_vars

(***************************************************************************)
(* Vocabulary of the aggregation properties, stated on the rows.           *)
(***************************************************************************)
IsCall(fn) == call # NoCall /\ call.fn = fn

\* the row's group key after trimming
KeyOf(row) == strip(row.REP_GROUP)
\* the value cell parses to no value: '', 'N/A' in any case, no number
NoValue(cell) == cell = <<>> \/ upper(cell) = <<"N", "/", "A">> \/ ~IsFloatLiteral(cell)
\* the indices of the rows that survive filtering
Retained(data, col) == {i \in DOMAIN data : KeyOf(data[i]) # <<>> /\ ~NoValue(data[i][col])}
RetainedKeys(data, col) == {KeyOf(data[i]) : i \in Retained(data, col)}

RECURSIVE ValuesOfKey(_, _, _, _)
\* the values of the retained rows of key k among the first n rows, in input order
ValuesOfKey(data, col, k, n) ==
    IF n = 0 THEN <<>>
    ELSE IF n \in Retained(data, col) /\ KeyOf(data[n]) = k
    THEN Append(ValuesOfKey(data, col, k, n - 1), float(data[n][col]))
    ELSE ValuesOfKey(data, col, k, n - 1)

\* C11: aggregator filtering and conservation. prepare_chart_data returns
\* None exactly when no row is retained (non-empty trimmed key and a value
\* that parses); otherwise it returns one raw_values list per retained key,
\* each the key's retained values in input order, and the lists together
\* hold as many values as there are retained rows.
C11_FilterAndConserve ==
    IsCall("prepare_chart_data") =>
        IF Retained(call.args.data, "LF") = {} THEN ret = None
        ELSE /\ ret # None
             /\ Len(ret.raw_values) = Cardinality(RetainedKeys(call.args.data, "LF"))
             /\ \A k \in RetainedKeys(call.args.data, "LF") :
                   \E j \in DOMAIN ret.raw_values :
                      ret.raw_values[j]
                         = ValuesOfKey(call.args.data, "LF", k, Len(call.args.data))
             /\ SumLens(ret.raw_values, Len(ret.raw_values))
                   = Cardinality(Retained(call.args.data, "LF"))

\* rows were discarded for an empty key, a blank key and an unparsable value,
\* and two rows of one key were kept
C11_Witness ==
    /\ IsCall("prepare_chart_data")
    /\ ret # None
    /\ Cardinality(Retained(call.args.data, "LF")) = 2
    /\ Len(call.args.data) = 3
    /\ Len(ret.raw_values) = 1

\* k precedes o as Python compares two str (stated on the characters,
\* apart from the model's sort)
KeyBefore(k, o) ==
    \E n \in 0 .. Len(k) :
        /\ n <= Len(o)
        /\ \A i \in 1 .. n : k[i] = o[i]
        /\ \/ n = Len(k) /\ n < Len(o)
           \/ n < Len(k) /\ n < Len(o) /\ Ord(k[n + 1]) < Ord(o[n + 1])

\* the position of key k among the retained keys in ascending string order
Rank(data, col, k) == 1 + Cardinality({o \in RetainedKeys(data, col) : KeyBefore(o, k)})

\* C12: group order. prepare_chart_data emits one group per distinct
\* retained key, and the group of key k stands at the position k has among
\* the retained keys in ascending string order ('10' before '2'), whatever
\* the order of the rows.
C12_GroupsInKeyOrder ==
    (IsCall("prepare_chart_data") /\ ret # None) =>
        /\ Len(ret.labels) = Cardinality(RetainedKeys(call.args.data, "LF"))
        /\ \A k \in RetainedKeys(call.args.data, "LF") :
              ret.raw_values[Rank(call.args.data, "LF", k)]
                 = ValuesOfKey(call.args.data, "LF", k, Len(call.args.data))

\* key '2' came first in the rows and key '10' leads the output
C12_Witness ==
    /\ IsCall("prepare_chart_data")
    /\ ret # None
    /\ RetainedKeys(call.args.data, "LF") = {<<"2">>, <<"1", "0">>}
    /\ KeyOf(call.args.data[1]) = <<"2">>
    /\ 1 \in Retained(call.args.data, "LF")
    /\ ret.raw_values[1] = ValuesOfKey(call.args.data, "LF", <<"1", "0">>, Len(call.args.data))

\* the first retained row of key k
FirstRetained(data, col, k) ==
    CHOOSE i \in Retained(data, col) :
        /\ KeyOf(data[i]) = k
        /\ \A j \in Retained(data, col) : KeyOf(data[j]) = k => i <= j

\* the trimmed sample name of a row
NameOf(row) == strip(row.SAMPLE_NAME)

\* 'Group <key>'
Synthesized(k) == <<"G", "r", "o", "u", "p", " ">> \o k

\* C13: label from the first retained row. The label of the group of key k
\* is the sample name of the first row of k that survives filtering, and it
\* is 'Group <k>' when that name is empty.
C13_LabelFromFirstRetained ==
    (IsCall("prepare_chart_data") /\ ret # None) =>
        \A k \in RetainedKeys(call.args.data, "LF") :
            ret.labels[Rank(call.args.data, "LF", k)]
               = (IF NameOf(call.args.data[FirstRetained(call.args.data, "LF", k)]) # <<>>
                  THEN NameOf(call.args.data[FirstRetained(call.args.data, "LF", k)])
                  ELSE Synthesized(k))

\* the first row of key '2' had a name and was dropped for its value; the
\* label is the name of the next row of the key
C13_Witness ==
    /\ IsCall("prepare_chart_data")
    /\ ret # None
    /\ Len(call.args.data) >= 2
    /\ KeyOf(call.args.data[1]) = <<"2">>
    /\ NameOf(call.args.data[1]) = <<"N">>
    /\ 1 \notin Retained(call.args.data, "LF")
    /\ FirstRetained(call.args.data, "LF", <<"2">>) = 2
    /\ ret.labels[Rank(call.args.data, "LF", <<"2">>)] = NameOf(call.args.data[2])
    /\ NameOf(call.args.data[2]) # <<>>

\* the retained rows of key k that carry a sample name
NamedRows(data, col, k) ==
    {i \in Retained(data, col) : KeyOf(data[i]) = k /\ NameOf(data[i]) # <<>>}

\* the first non-empty sample name among the retained rows of key k
FirstName(data, col, k) ==
    NameOf(data[CHOOSE i \in NamedRows(data, col, k) :
                    \A j \in NamedRows(data, col, k) : i <= j])

SeriesOf(row) == strip(row.GROUP)
\* the rows with a series name, an age and a value that all parse
TimeRetained(data) ==
    {i \in DOMAIN data :
        SeriesOf(data[i]) # <<>> /\ ~NoValue(data[i].AGE) /\ ~NoValue(data[i].LF)}
SeriesNames(data) == {SeriesOf(data[i]) : i \in TimeRetained(data)}
\* the distinct ages of series g
AgesOf(data, g) == {float(data[i].AGE) : i \in {j \in TimeRetained(data) : SeriesOf(data[j]) = g}}

RECURSIVE PointValues(_, _, _, _)
\* the retained values of series g at age a among the first n rows, in input order
PointValues(data, g, a, n) ==
    IF n = 0 THEN <<>>
    ELSE IF n \in TimeRetained(data) /\ SeriesOf(data[n]) = g /\ float(data[n].AGE) = a
    THEN Append(PointValues(data, g, a, n - 1), float(data[n].LF))
    ELSE PointValues(data, g, a, n - 1)

\* the position of series g in ascending string order of the names
SeriesRank(data, g) == 1 + Cardinality({o \in SeriesNames(data) : KeyBefore(o, g)})
\* the position of age a in ascending order of the ages of series g
AgeRank(data, g, a) == 1 + Cardinality({o \in AgesOf(data, g) : o < a})

RECURSIVE SqDiffTo(_, _)
\* (x - r1)^2 + (x - r2)^2 + ...
SqDiffTo(x, rest) ==
    IF rest = <<>> THEN 0 ELSE (x - rest[1]) * (x - rest[1]) + SqDiffTo(x, Tail(rest))

RECURSIVE PairSum(_)
\* the sum of (xi - xj)^2 over the pairs i < j, which is n (n-1) times the
\* sample variance and n^2 times the population variance
PairSum(xs) == IF xs = <<>> THEN 0 ELSE SqDiffTo(xs[1], Tail(xs)) + PairSum(Tail(xs))

\* s is the sample standard deviation of xs: 0 for one value, else the root
\* of PairSum / (n (n-1)), and not the root of PairSum / n^2
IsSampleStd(s, xs) ==
    IF Len(xs) = 1 THEN s = Root(Frac(0, 1))
    ELSE /\ s.sqrt_of.den > 0
         /\ s.sqrt_of.num * Len(xs) * (Len(xs) - 1) = s.sqrt_of.den * PairSum(xs)
         /\ PairSum(xs) # 0 => s.sqrt_of.num * Len(xs) * Len(xs) # s.sqrt_of.den * PairSum(xs)

\* C15: sample standard deviation. Every std reported by prepare_chart_data
\* and every std of a time-course point is exactly 0 for one value and has
\* divisor n-1 for n >= 2 values (for two values a, b: 2 std^2 = (a-b)^2);
\* it is never the population value.
C15_SampleStd ==
    /\ (IsCall("prepare_chart_data") /\ ret # None) =>
          \A j \in DOMAIN ret.stds : IsSampleStd(ret.stds[j], ret.raw_values[j])
    /\ (IsCall("create_time_course_chart") /\ ret # None) =>
          \A g \in SeriesNames(call.args.data) :
             \A a \in AgesOf(call.args.data, g) :
                IsSampleStd(ret.lines[SeriesRank(call.args.data, g)].stds[
                                AgeRank(call.args.data, g, a)],
                            PointValues(call.args.data, g, a, Len(call.args.data)))

\* a group of one value with std 0 beside a group of two values a # b whose
\* std^2 is (a-b)^2 / 2
C15_Witness ==
    /\ IsCall("prepare_chart_data")
    /\ ret # None
    /\ \E j \in DOMAIN ret.stds : Len(ret.raw_values[j]) = 1 /\ ret.stds[j] = Root(Frac(0, 1))
    /\ \E j \in DOMAIN ret.stds :
          /\ Len(ret.raw_values[j]) = 2
          /\ ret.raw_values[j][1] # ret.raw_values[j][2]
          /\ ret.stds[j] = Root(Frac((ret.raw_values[j][1] - ret.raw_values[j][2])
                                        * (ret.raw_values[j][1] - ret.raw_values[j][2]), 2))

(***************************************************************************)
(* C16                                                                     *)
(***************************************************************************)
\* an average chart function was called and returned a figure
AvgDrawn ==
    (IsCall("build_avg_chart") \/ IsCall("create_publication_chart")) /\ IsFigure(ret)

\* mean + std of every group of the input of the call
AvgTops ==
    IF IsCall("create_publication_chart")
    THEN LET d == call.args.chart_data IN {d.means[i] + d.stds[i] : i \in DOMAIN d.means}
    ELSE IF variant = "service"
    THEN LET d == call.args.data IN {d.means[i] + d.stds[i] : i \in DOMAIN d.means}
    ELSE LET gs == call.args.data.groups
         IN  {gs[i].mean + Get(gs[i], "std", 0) : i \in DOMAIN gs}

\* the limits of the vertical axis of the figure, in hundredths
AvgYlim == IF IsCall("create_publication_chart") THEN ret.ylim ELSE ret.drawn.ylim

\* C16: for every average request with at least one group the floor of the
\* vertical axis is 0, the ceiling is at least mean+std of every group and at
\* most 1.18 times the largest mean+std, also when every mean+std is 0 and
\* when some mean+std is negative.
C16_AverageCeiling ==
    AvgDrawn /\ AvgTops # {} =>
        /\ AvgYlim.bottom = 0
        /\ \A t \in AvgTops : AvgYlim.top >= 100 * t
        /\ \A m \in AvgTops : (\A t \in AvgTops : t <= m) => AvgYlim.top <= 118 * m

\* the same for the requests whose largest mean+std is positive
C16_PositiveCeiling ==
    AvgDrawn /\ (\E t \in AvgTops : t > 0) => 
        /\ AvgYlim.bottom = 0
        /\ \A t \in AvgTops : AvgYlim.top >= 100 * t
        /\ \A m \in AvgTops : (\A t \in AvgTops : t <= m) => AvgYlim.top <= 118 * m

(***************************************************************************)
(* C17                                                                     *)
(***************************************************************************)
\* an individual chart was built and returned
IndBuilt == IsCall("build_ind_chart") /\ IsFigure(ret)

\* the treatments of the request
Requested == call.args.data.treatments

\* the largest number of values of any requested treatment
MaxReps ==
    CHOOSE m \in {Len(Requested[t].values) : t \in DOMAIN Requested} :
        \A t \in DOMAIN Requested : Len(Requested[t].values) <= m

\* C17: individual-family padding. Every treatment is drawn with exactly
\* max_reps bars, max_reps being the largest number of values of any
\* treatment; bar r of treatment t has the value t.values[r] when t has that
\* many values and 0 otherwise; the value lists of the caller's treatments
\* are what they were before the call.
C17_IndividualPadding ==
    IndBuilt =>
        /\ DOMAIN ret.drawn.bars = DOMAIN Requested
        /\ \A t \in DOMAIN Requested :
              /\ Len(ret.drawn.bars[t].vals) = MaxReps
              /\ \A r \in 1 .. MaxReps :
                    ret.drawn.bars[t].vals[r] =
                        IF r <= Len(Requested[t].values) THEN Requested[t].values[r] ELSE 0
              /\ ret.drawn.treatments[t].values = Requested[t].values

\* a treatment of one value next to a treatment of two was drawn with a
\* zero bar at its second position, and a treatment of no value with two
C17_Witness ==
    /\ IndBuilt
    /\ MaxReps = 2
    /\ \E t \in DOMAIN Requested :
          /\ Len(Requested[t].values) < 2
          /\ ret.drawn.bars[t].vals[2] = 0
          /\ ret.drawn.bars[t].vals[1] = IF Requested[t].values = <<>> THEN 0 ELSE 1

(***************************************************************************)
(* C18                                                                     *)
(***************************************************************************)
RECURSIVE Total(_)
\* x1 + x2 + ...
Total(xs) == IF xs = <<>> THEN 0 ELSE xs[1] + Total(Tail(xs))

\* m is the arithmetic mean of the non-empty xs
IsMean(m, xs) == m.den > 0 /\ m.num * Len(xs) = m.den * Total(xs)

\* point j of the line aggregates the values xs
PointOf(line, j, a, xs) ==
    /\ line.ages[j] = a
    /\ IsMean(line.means[j], xs)
    /\ IsSampleStd(line.stds[j], xs)

\* the line is the series g of the rows, whose distinct ages are ages
LineOf(line, data, g, ages) ==
    /\ line.label = Synthesized(g)
    /\ Len(line.ages) = Cardinality(ages)
    /\ Len(line.means) = Cardinality(ages)
    /\ Len(line.stds) = Cardinality(ages)
    /\ \A j \in 1 .. (Len(line.ages) - 1) : line.ages[j] < line.ages[j + 1]
    /\ \A a \in ages :
          PointOf(line, 1 + Cardinality({o \in ages : o < a}), a,
                  PointValues(data, g, a, Len(data)))

\* the lines are the series of the rows, in ascending string order of name
LinesOf(lines, data, names) ==
    /\ Len(lines) = Cardinality(names)
    /\ \A g \in names :
          LineOf(lines[1 + Cardinality({o \in names : KeyBefore(o, g)})], data, g,
                 AgesOf(data, g))

\* C18: time-course aggregation. create_time_course_chart keeps a row only
\* when its series name, its age and its value are all valid, and returns
\* no chart when no row is kept; every kept series has exactly one point per
\* distinct age, whose mean and std aggregate all kept values of that
\* (series, age) pair with the rules of the bar charts; the points of a
\* series are in strictly ascending age and the series stand in ascending
\* string order of their names.
C18_TimeCourseAggregation ==
    IsCall("create_time_course_chart") =>
        /\ (ret = None) <=> (TimeRetained(call.args.data) = {})
        /\ ret # None => LinesOf(ret.lines, call.args.data, SeriesNames(call.args.data))

\* series '2' got its row of age 10 before two rows of age 2: its points are
\* age 2, aggregating both values, and then age 10
C18_Witness ==
    /\ IsCall("create_time_course_chart")
    /\ ret # None
    /\ Len(call.args.data) = 3
    /\ float(call.args.data[1].AGE) = 10
    /\ SeriesNames(call.args.data) = {<<"2">>}
    /\ ret.lines[1].ages = <<2, 10>>
    /\ Len(PointValues(call.args.data, <<"2">>, 2, 3)) = 2
    /\ ret.lines[1].means[1] = [num |-> 3, den |-> 1]
    /\ ret.lines[1].means[2] = [num |-> 3, den |-> 1]

(***************************************************************************)
(* C19                                                                     *)
(***************************************************************************)
Programs == Variants \cup Scripts

\* the table a program takes the colours of its bars and lines from, and
\* the table it takes patterns from (<<>>: the program draws no pattern)
ColourTableOf(v) == IF v \in Scripts THEN LineColors ELSE PaletteOf(v)
PatternTableOf(v) ==
    IF v \in Scripts THEN HATCHES_scripts
    ELSE IF v = "service" THEN HATCHES
    ELSE <<>>

Distinct(t) == \A i, j \in DOMAIN t : i # j => t[i] # t[j]
Entries(t) == {t[i] : i \in DOMAIN t}

\* entry i (0-based) of table t taken cyclically
Lookup(t, i) == t[(i % Len(t)) + 1]

\* the colours of the treatments or series of the figure returned, in
\* drawing order
DrawnColours ==
    IF IsCall("build_ind_chart") THEN [i \in DOMAIN ret.drawn.bars |-> ret.drawn.bars[i].color]
    ELSE IF IsCall("build_time_chart")
    THEN [i \in DOMAIN ret.drawn.lines |-> ret.drawn.lines[i].color]
    ELSE [i \in DOMAIN ret.lines |-> ret.lines[i].color]

ColoursDrawn ==
    /\ IsCall("build_ind_chart") \/ IsCall("build_time_chart")
          \/ IsCall("create_time_course_chart")
    /\ IsFigure(ret)

PatternDrawn ==
    /\ IsCall("create_publication_chart") \/ (IsCall("build_avg_chart") /\ variant = "service")
    /\ IsFigure(ret)

\* C19: palette and pattern tables. The colour palette has 15 pairwise
\* distinct entries and is the same table in every entry point, and the
\* colour of index i is palette[i mod 15]; the pattern table holds the solid
\* pattern and at least 9 pairwise distinct hatch styles, is the same table
\* in every entry point that draws patterns, the pattern of chart index i is
\* table[i mod size], and within one cycle distinct indices give distinct
\* patterns.
C19_PaletteAndPatterns ==
    /\ ColoursDrawn =>
          /\ Len(ColourTableOf(variant)) = 15
          /\ Distinct(ColourTableOf(variant))
          /\ \A v \in Programs : ColourTableOf(v) = ColourTableOf(variant)
          /\ \A i \in DOMAIN DrawnColours :
                DrawnColours[i] = Lookup(ColourTableOf(variant), i - 1)
    /\ PatternDrawn =>
          /\ "" \in Entries(PatternTableOf(variant))
          /\ Cardinality(Entries(PatternTableOf(variant)) \ {""}) >= 9
          /\ Distinct(PatternTableOf(variant))
          /\ \A v \in Programs :
                PatternTableOf(v) # <<>> => PatternTableOf(v) = PatternTableOf(variant)
          /\ IsCall("create_publication_chart") =>
                ret.hatch = Lookup(PatternTableOf(variant), call.args.chart_index)

\* what the tables of each program do satisfy: every colour is
\* table[i mod size] of the program's own table, whose entries are pairwise
\* distinct, and every pattern table holds the solid pattern and at least 9
\* distinct hatch styles
C19_OwnTables ==
    /\ ColoursDrawn =>
          /\ Distinct(ColourTableOf(variant))
          /\ \A i \in DOMAIN DrawnColours :
                DrawnColours[i] = Lookup(ColourTableOf(variant), i - 1)
    /\ PatternDrawn =>
          /\ "" \in Entries(PatternTableOf(variant))
          /\ Cardinality(Entries(PatternTableOf(variant)) \ {""}) >= 9
          /\ IsCall("create_publication_chart") =>
                ret.hatch = Lookup(PatternTableOf(variant), call.args.chart_index)

(***************************************************************************)
(* C20                                                                     *)
(***************************************************************************)
\* a time-course chart was drawn
TimeDrawn ==
    (IsCall("build_time_chart") \/ IsCall("create_time_course_chart")) /\ IsFigure(ret)

\* its lines in drawing order
TimeLines == IF IsCall("build_time_chart") THEN ret.drawn.lines ELSE ret.lines

\* the series name behind the label of a line: chart_service.py and the
\* scripts label a line 'Group <name>', part_000 and app.py '<name>'
DrawnName(line) ==
    IF variant \in {"app1", "app"} THEN line.label
    ELSE SubSeq(line.label, Len(Synthesized(<<>>)) + 1, Len(line.label))

\* C20: time-course drawing order. In every entry point the series are
\* drawn in ascending order of series name, whatever their order in the
\* request or in the rows, and the series drawn i-th (from 0) has colour
\* palette[i].
C20_SeriesInNameOrder ==
    TimeDrawn =>
        /\ \A i, j \in DOMAIN TimeLines :
              i < j => ~KeyBefore(DrawnName(TimeLines[j]), DrawnName(TimeLines[i]))
        /\ \A i \in DOMAIN TimeLines :
              TimeLines[i].color = Lookup(ColourTableOf(variant), i - 1)

\* the same for the charts the scripts draw from rows
C20_ScriptsInNameOrder ==
    (IsCall("create_time_course_chart") /\ IsFigure(ret)) =>
        /\ \A i, j \in DOMAIN TimeLines :
              i < j => KeyBefore(DrawnName(TimeLines[i]), DrawnName(TimeLines[j]))
        /\ \A i \in DOMAIN TimeLines :
              TimeLines[i].color = Lookup(ColourTableOf(variant), i - 1)

(***************************************************************************)
(* C21                                                                     *)
(***************************************************************************)
\* the exchanges of two neighbouring rows of a table of n rows; every order
\* of the rows is reached by such exchanges, and every table of the rows in
\* another order is itself a table prepare_chart_data is called on
RowOrders ==
    [n \in 0 .. MaxRows |->
        {[i \in 1 .. n |-> IF i = a THEN a + 1 ELSE IF i = a + 1 THEN a ELSE i] :
            a \in 1 .. (n - 1)}]

\* the rows of data in the order p
Permuted(data, p) == [i \in DOMAIN data |-> data[p[i]]]

\* the values of xs as a bag
BagOf(xs) == [v \in {xs[i] : i \in DOMAIN xs} |-> Cardinality({i \in DOMAIN xs : xs[i] = v})]

\* results r of the rows data and q of the same rows in the order other
\* have the same groups with the same mean, std and values; a label
\* differs only where another retained row of the group comes first
SameGroups(r, q, data, other, col) ==
    /\ (r = None) <=> (q = None)
    /\ r # None =>
          /\ r.means = q.means
          /\ r.stds = q.stds
          /\ DOMAIN r.labels = DOMAIN q.labels
          /\ DOMAIN r.raw_values = DOMAIN q.raw_values
          /\ \A j \in DOMAIN r.raw_values : BagOf(r.raw_values[j]) = BagOf(q.raw_values[j])
          /\ r.labels # q.labels =>
                \A k \in RetainedKeys(data, col) :
                    r.labels[Rank(data, col, k)] # q.labels[Rank(data, col, k)] =>
                        data[FirstRetained(data, col, k)] # other[FirstRetained(other, col, k)]

\* C21: mean and std are permutation-invariant. For every table of rows,
\* prepare_chart_data of the table with two neighbouring rows exchanged, and
\* so of any permutation of the rows, returns the same groups with the same
\* mean and the same std per group; only the label and the order of
\* raw_values may differ, and a label differs only if another retained row
\* of its group comes first.
C21_PermutationInvariant ==
    IsCall("prepare_chart_data") =>
        \A p \in RowOrders[Len(call.args.data)] :
            SameGroups(ret,
                       prepare_chart_data(Permuted(call.args.data, p), call.args.chart_def),
                       call.args.data, Permuted(call.args.data, p), call.args.chart_def.col)

\* two rows of key '2' with different names and values and a row of key
\* '10': the reversed table gives the same means and stds and another label
C21_Witness ==
    /\ IsCall("prepare_chart_data")
    /\ ret # None
    /\ Len(call.args.data) = 3
    /\ Len(ret.means) = 2
    /\ \E j \in DOMAIN ret.raw_values :
          Len(ret.raw_values[j]) = 2 /\ ret.raw_values[j][1] # ret.raw_values[j][2]
    /\ ret.labels # prepare_chart_data(Permuted(call.args.data, <<3, 2, 1>>),
                                       call.args.chart_def).labels
    /\ ret.means = prepare_chart_data(Permuted(call.args.data, <<3, 2, 1>>),
                                      call.args.chart_def).means

(***************************************************************************)
(* C22                                                                     *)
(***************************************************************************)
\* the number of groups of the average chart of the call
AvgGroups ==
    IF IsCall("create_publication_chart") THEN Len(call.args.chart_data.labels)
    ELSE IF variant = "service" THEN Len(call.args.data.labels)
    ELSE Len(call.args.data.groups)

\* the width of its bars, in hundredths
AvgWidth == IF IsCall("create_publication_chart") THEN ret.width ELSE ret.drawn.width

\* C22: in every entry point the bars of an average chart are 0.55 wide
\* when the chart has at most 6 groups and 0.7 wide when it has more, so a
\* chart of 6 groups and a chart of 7 groups differ in bar width.
C22_BarWidth ==
    AvgDrawn => AvgWidth = (IF AvgGroups <= 6 THEN 55 ELSE 70)

\* the same for build_avg_chart of part_000 and app.py alone
C22_BarWidthOfApps ==
    AvgDrawn /\ variant \in {"app1", "app"} => AvgWidth = (IF AvgGroups <= 6 THEN 55 ELSE 70)

(***************************************************************************)
(* C23                                                                     *)
(***************************************************************************)
\* an average chart function was called
AvgCalled == IsCall("build_avg_chart") \/ IsCall("create_publication_chart")

\* the labels of the call, <<>> when the request does not carry a label, a
\* mean and a std for every group or carries raw values
AvgLabels ==
    IF IsCall("create_publication_chart") THEN call.args.chart_data.labels
    ELSE IF Has(call.args.data, "raw_values") THEN <<>>
    ELSE IF variant = "service"
    THEN IF Has(call.args.data, "labels") /\ Has(call.args.data, "means")
            /\ Has(call.args.data, "stds")
         THEN call.args.data.labels ELSE <<>>
    ELSE IF Has(call.args.data, "groups")
            /\ \A i \in DOMAIN call.args.data.groups :
                  Has(call.args.data.groups[i], "label") /\ Has(call.args.data.groups[i], "mean")
         THEN [i \in DOMAIN call.args.data.groups |-> call.args.data.groups[i].label]
         ELSE <<>>

\* the number of characters a label is printed with
PrintedLength(l) ==
    IF Has(l, "str") THEN Len(l.str)
    ELSE CHOOSE k \in 1 .. 10 : 10 ^ (k - 1) <= l.int /\ l.int < 10 ^ k

\* the length above which the running program rotates the labels
RotateAbove == IF variant = "app1" THEN 5 ELSE 6

\* the tick labels of the figure
AvgTicks == IF IsCall("create_publication_chart") THEN ret.xticklabels ELSE ret.drawn.xticklabels

\* C23: label rotation is all-or-nothing. For every non-empty list of
\* labels, labels that are not strings included, the average builder
\* returns a figure; its tick labels are rotated by 45 degrees and
\* right-aligned when at least one label is longer than the threshold, and
\* are at 0 degrees and centred otherwise.
C23_LabelRotation ==
    AvgCalled /\ AvgLabels # <<>> =>
        /\ IsFigure(ret)
        /\ AvgTicks = (IF \E i \in DOMAIN AvgLabels : PrintedLength(AvgLabels[i]) > RotateAbove
                       THEN [rotation |-> 45, ha |-> "right"]
                       ELSE [rotation |-> 0, ha |-> "center"])

\* the same for the lists of labels that are all strings
C23_StringLabelRotation ==
    AvgCalled /\ AvgLabels # <<>> /\ (\A i \in DOMAIN AvgLabels : Has(AvgLabels[i], "str")) =>
        /\ IsFigure(ret)
        /\ AvgTicks = (IF \E i \in DOMAIN AvgLabels : PrintedLength(AvgLabels[i]) > RotateAbove
                       THEN [rotation |-> 45, ha |-> "right"]
                       ELSE [rotation |-> 0, ha |-> "center"])

(***************************************************************************)
(* C24                                                                     *)
(***************************************************************************)
\* the number of treatments of the request
NTreatments == Len(Requested)

\* the fraction q in units of 1 / (20 * NTreatments) of the distance between
\* two clusters
InUnits(q) == (q.num * 20 * NTreatments) \div q.den

\* q is a whole number of such units
Whole(q) == q.den > 0 /\ (q.num * 20 * NTreatments) % q.den = 0

\* the edges of the bars of treatment t (1-based) around the cluster centre
LeftEdge(t) == InUnits(ret.drawn.bars[t].offset) - InUnits(ret.drawn.bars[t].width) \div 2
RightEdge(t) == InUnits(ret.drawn.bars[t].offset) + InUnits(ret.drawn.bars[t].width) \div 2

RECURSIVE OffsetSum(_)
\* the sum of the offsets of treatments 1 .. t
OffsetSum(t) == IF t = 0 THEN 0 ELSE InUnits(ret.drawn.bars[t].offset) + OffsetSum(t - 1)

\* C24: geometry of an individual cluster. With n treatments every bar is
\* 0.8 / n wide and the bars of treatment i (from 0) are offset by
\* (i - n/2 + 0.5) * 0.8 / n; the offsets are symmetric about the cluster
\* centre and sum to 0, neighbouring bars abut without overlap, and the
\* cluster spans 0.8, less than the distance 1 between two clusters.
C24_ClusterGeometry ==
    IndBuilt =>
        /\ \A t \in DOMAIN Requested :
              /\ Whole(ret.drawn.bars[t].width) /\ Whole(ret.drawn.bars[t].offset)
              /\ InUnits(ret.drawn.bars[t].width) = 16
              /\ InUnits(ret.drawn.bars[t].offset) = 8 * (2 * (t - 1) - NTreatments + 1)
              /\ InUnits(ret.drawn.bars[t].offset)
                    = 0 - InUnits(ret.drawn.bars[NTreatments + 1 - t].offset)
              /\ t < NTreatments => RightEdge(t) = LeftEdge(t + 1)
        /\ OffsetSum(NTreatments) = 0
        /\ RightEdge(NTreatments) - LeftEdge(1) = 16 * NTreatments
        /\ 16 * NTreatments < 20 * NTreatments

\* a cluster of two treatments and a cluster of ManyGroups treatments
C24_Witness ==
    /\ IndBuilt
    /\ NTreatments >= 2
    /\ LeftEdge(1) < 0
    /\ RightEdge(1) = LeftEdge(2)
    /\ RightEdge(NTreatments) = 8 * NTreatments

(***************************************************************************)
(* C25                                                                     *)
(***************************************************************************)
\* the lists of a chart_data have one common length, at least 1, and every
\* group has a value
GroupLists(d) ==
    /\ Len(d.labels) >= 1
    /\ Len(d.means) = Len(d.labels)
    /\ Len(d.stds) = Len(d.labels)
    /\ Len(d.raw_values) = Len(d.labels)
    /\ \A i \in DOMAIN d.raw_values : d.raw_values[i] # <<>>

\* C25: None propagation. prepare_chart_data returns None exactly when no
\* row survives filtering; otherwise labels, means, stds and raw_values have
\* one common length of at least 1 and every raw_values[i] is non-empty.
\* main skips the chart on None, so the builder is called only with lists of
\* at least one group.
C25_NoneOrGroups ==
    /\ IsCall("prepare_chart_data") =>
          /\ (ret = None) <=> (Retained(call.args.data, call.args.chart_def.col) = {})
          /\ ret # None => GroupLists(ret)
    /\ IsCall("main") =>
          /\ (ret.charts_generated = 0) <=> (Retained(call.args.data, call.args.chart_def.col) = {})
          /\ Has(ret, "chart_data") <=> (ret.charts_generated = 1)
          /\ Has(ret, "chart_data") => GroupLists(ret.chart_data)

\* of three rows one was discarded and the two others make two groups: main
\* called the builder with them
C25_Witness ==
    /\ IsCall("main")
    /\ Len(call.args.data) = 3
    /\ Cardinality(Retained(call.args.data, "LF")) = 2
    /\ ret.charts_generated = 1
    /\ Len(ret.chart_data.labels) = 2

(***************************************************************************)
(* C26                                                                     *)
(***************************************************************************)
\* outcome o answers request c, whose encoding succeeded or not: it carries
\* exactly one of 'image' and 'error', and an image only when the builder
\* returned a figure and the encoding completed
OneOutcome(o, c, encoded) ==
    /\ IsImage(o) # IsError(o)
    /\ IsImage(o) => (BuildKind(c) = "fig" /\ encoded)

\* C26: outcome exclusivity. Every response of the single-chart entry point
\* and every entry of a batch results list carries exactly one of 'image'
\* and 'error', and 'image' only when a builder returned a figure and its
\* encoding completed.
C26_OutcomeExclusive ==
    /\ (lastReq # NoReq /\ IsChart) =>
          /\ HasJson /\ ~HasResults
          /\ OneOutcome(lastResp.json, lastReq.body, lastReq.enc = 0)
    /\ (lastReq # NoReq /\ IsBatch /\ HasResults) =>
          /\ Len(lastResp.json.results) = Len(Get(lastReq.body, "charts", <<>>))
          /\ \A i \in DOMAIN lastResp.json.results :
                OneOutcome(lastResp.json.results[i], lastReq.body.charts[i], lastReq.enc # i)

\* a batch of two requests answered with an image and an error
C26_Witness ==
    /\ lastReq # NoReq /\ IsBatch /\ HasResults
    /\ Len(lastResp.json.results) = 2
    /\ IsImage(lastResp.json.results[1])
    /\ IsError(lastResp.json.results[2])

(***************************************************************************)
(* C27                                                                     *)
(***************************************************************************)
\* request c with the type 'average' written out when it names no type
Typed(c) ==
    IF IsObject(c) /\ ~Has(c, "type")
    THEN [k \in DOMAIN c \cup {"type"} |-> IF k = "type" THEN "average" ELSE c[k]]
    ELSE c

\* the response of the batch entry point of the running variant
BatchResponse(body, encFail) ==
    IF variant = "app1" THEN Respond(generate_batch_app1(body, encFail, figs, np_rng, rcParams))
    ELSE Respond(generate_batch_app(body, encFail, figs, np_rng, rcParams))

\* outcomes a and b are the same: both the same error, or both an image of
\* the same family with the same number of groups and the same pattern
SameOutcome(a, b) ==
    /\ IsImage(a) = IsImage(b)
    /\ IsError(a) = IsError(b)
    /\ IsError(a) /\ IsError(b) => a.error = b.error
    /\ IsImage(a) /\ IsImage(b) =>
          /\ a.image.family = b.image.family
          /\ a.image.n = b.image.n
          /\ a.image.hatch = b.image.hatch

\* the batch request with the type of every item written out
TypedBatch == [charts |-> [i \in DOMAIN lastReq.body.charts |-> Typed(lastReq.body.charts[i])]]

\* C27: default chart type. A request that names no 'type' is dispatched to
\* the average builder, in the single-chart entry point and in a batch: its
\* outcome is the outcome of the same request with type 'average'.
C27_DefaultType ==
    /\ (lastReq # NoReq /\ IsChart /\ IsObject(lastReq.body) /\ ~Has(lastReq.body, "type")) =>
          /\ lastResp.status = ChartResponse(Typed(lastReq.body), lastReq.enc = 0).status
          /\ SameOutcome(lastResp.json, ChartResponse(Typed(lastReq.body), lastReq.enc = 0).json)
          /\ IsImage(lastResp.json) => lastResp.json.image.family = "average"
    /\ HasCharts =>
          /\ lastResp.status = BatchResponse(TypedBatch, lastReq.enc).status
          /\ HasResults = Has(BatchResponse(TypedBatch, lastReq.enc).json, "results")
          /\ ~HasResults => SameOutcome(lastResp.json, BatchResponse(TypedBatch, lastReq.enc).json)
          /\ HasResults =>
                \A i \in DOMAIN lastResp.json.results :
                    /\ SameOutcome(lastResp.json.results[i],
                                   BatchResponse(TypedBatch, lastReq.enc).json.results[i])
                    /\ (IsObject(lastReq.body.charts[i]) /\ ~Has(lastReq.body.charts[i], "type")
                        /\ IsImage(lastResp.json.results[i]))
                          => lastResp.json.results[i].image.family = "average"

\* a request without 'type' was answered with an image of the average
\* family as the second item of a batch
C27_Witness ==
    /\ lastReq # NoReq
    /\ HasCharts /\ HasResults /\ Len(lastReq.body.charts) = 2
    /\ IsObject(lastReq.body.charts[2])
    /\ ~Has(lastReq.body.charts[2], "type")
    /\ IsImage(lastResp.json.results[2])
    /\ lastResp.json.results[2].image.family = "average"

(***************************************************************************)
(* C28                                                                     *)
(***************************************************************************)
\* the raw values of the average chart of the call, a list per group
RawOfCall ==
    IF IsCall("create_publication_chart") THEN call.args.chart_data.raw_values
    ELSE Get(call.args.data, "raw_values", <<>>)

\* the jitter offsets the chart was drawn with, a list per group
JitterOfCall == IF IsCall("create_publication_chart") THEN ret.jitter ELSE ret.fig.jitter

\* the programs that seed the jitter generator with 42
Seeded == variant \in {"app1", "service", "chart_generator", "headless_charts"}

\* the offsets of a fresh generator of seed 42 for every group
FreshPerGroup(raw) == [i \in DOMAIN raw |-> normal(default_rng(42), Len(raw[i]))]

\* the offsets of one generator of seed 42 for the chart, the groups drawing
\* from it in turn
OnePerChart(raw) ==
    [i \in DOMAIN raw |-> normal(advance(default_rng(42), SumLens(raw, i - 1)), Len(raw[i]))]

\* C28: the seeded variants agree on the jitter. For raw values of two or
\* more non-empty groups the program that makes a fresh generator per group
\* and the programs that make one generator per chart draw the points at
\* the same offsets.
C28_SeededVariantsAgree ==
    (/\ AvgDrawn /\ Seeded
     /\ Len(RawOfCall) >= 2
     /\ \A i \in DOMAIN RawOfCall : RawOfCall[i] # <<>>)
    => /\ JitterOfCall = FreshPerGroup(RawOfCall)
       /\ JitterOfCall = OnePerChart(RawOfCall)

\* every seeded program draws the first group at the same offsets
C28_FirstGroupAgrees ==
    (AvgDrawn /\ Seeded /\ Len(RawOfCall) >= 1 /\ RawOfCall[1] # <<>>)
    => /\ JitterOfCall[1] = FreshPerGroup(RawOfCall)[1]
       /\ JitterOfCall[1] = OnePerChart(RawOfCall)[1]

(***************************************************************************)
(* C29                                                                     *)
(***************************************************************************)
\* C29: the Drive upload does not duplicate. The folder never holds two
\* files of the same name, also when two runs of the script are interleaved
\* between the query for an existing file and the create or update call.
C29_NoDuplicateFiles ==
    \A i, j \in DOMAIN drive : drive[i].name = drive[j].name => i = j

\* two files of one name were never created by the same run
C29_NoDuplicateOfOneRun ==
    \A i, j \in DOMAIN drive :
        (drive[i].name = drive[j].name /\ i # j) => drive[i].created_by # drive[j].created_by

(***************************************************************************)
(* C30                                                                     *)
(***************************************************************************)
\* the positions in Charts of the charts run r generated, ascending
GeneratedBy(r) ==
    SelectSeq([k \in DOMAIN Charts |-> k], LAMBDA k : runs[r].outcomes[k] = "generated")

\* run r ended with an exception of an upload or of a permission call
UploadFailed(r) == runs[r].pc \in {"list failed", "write failed", "permission failed"}

\* C30: export ordering and completeness. The 'Charts' tab is written only
\* after every chart the run generated was uploaded and made viewable; it
\* lists exactly the generated charts in generation order (the chart
\* definitions in table order, the time course last), each with the file id
\* its own upload returned, and no chart that failed or had no data. A run
\* in which an upload or a permission call raised writes nothing to the tab.
C30_ExportAfterUploads ==
    /\ sheet.state = "written" =>
          /\ Len(sheet.cells) = Len(GeneratedBy(sheet.by))
          /\ \A i \in DOMAIN sheet.cells :
                /\ sheet.cells[i].title = Charts[GeneratedBy(sheet.by)[i]].title
                /\ sheet.cells[i].file_id \in DOMAIN drive
                /\ drive[sheet.cells[i].file_id].name = Charts[GeneratedBy(sheet.by)[i]].fname
                /\ sheet.by \in drive[sheet.cells[i].file_id].uploads
                /\ sheet.by \in drive[sheet.cells[i].file_id].viewable
    /\ \A r \in Runs : UploadFailed(r) => ~(sheet.state # "absent" /\ sheet.by = r)

\* a run generated the first chart and the time course, not the second
\* chart, and wrote the tab with the two, while the upload of the other run
\* failed
C30_Witness ==
    /\ sheet.state = "written"
    /\ runs[sheet.by].outcomes = <<"generated", "no data", "generated">>
    /\ Len(sheet.cells) = 2
    /\ sheet.cells[1].file_id # sheet.cells[2].file_id
    /\ \E r \in Runs : UploadFailed(r) /\ runs[r].generated # <<>>

====
